---- MODULE Spec2Model ----
(***************************************************************************)
(* Verification model of simple-ftp-app: the framing codec and socket      *)
(* multiplexer (connection.py), the secure channel (encryption.py), the    *)
(* network interface (network.py) and the client/server session states     *)
(* (client/client_state.py, server/server_state.py).                       *)
(*                                                                         *)
(* The module holds several specifications over one set of variables:      *)
(*   SpecFraming  one connection at byte level: write, recv, reassembly    *)
(*   SpecCrypto   two secure channels: key exchange, encrypt, decrypt      *)
(*   SpecSession  one client and the server: handshake, requests, replies  *)
(*   Spec         every client and the server                              *)
(***************************************************************************)
EXTENDS Integers, Sequences, FiniteSets, TLC

VARIABLES
    conn,        \* framing: the Connection record of the reading side
    wire,        \* framing: bytes written to the socket and not yet received
    sent,        \* framing: bodies of the frames written so far (history)
    kinds,       \* framing: kinds of chunk boundaries the reads have met (history)
    muxAlive,    \* framing: the multiplexer thread has not died of an exception
    now,         \* wall clock, in milliseconds
    chan,        \* crypto: the NetworkEncryption object of each of two peers
    derived,     \* crypto: what each peer's cipher was derived from (history)
    op,          \* crypto: the last call made on a channel and its outcome
    clients,     \* the client processes that are run
    connections, \* per process: ConnectionHandler.connections
    connection_map, \* per process: ConnectionHandler.connection_map
    input_buffer,   \* per process: the Queue behind Connection.input_buffer
    output_buffer,  \* per process: the Queue behind Connection.output_buffer
    sock,        \* per endpoint: frames sent to it and not yet received
    encryption,  \* per endpoint: ConnectionData.encryption
    worker,      \* per endpoint: the session worker thread
    current,     \* per endpoint: the state the driving loop is running
    pc,          \* per endpoint: where the run of the current state stands
    locals,      \* per endpoint: local variables of the run of the current state
    state_queue, \* per endpoint: the pending states
    ui_left,     \* per client: states the user may still enqueue
    users,       \* server: ServerDataManager._user_data.users
    connected_users, \* server: ServerDataManager._connected_users
    logs,        \* server: ServerDataManager._logs.interactions
    folders,     \* server: the user folders under server_data/files
    files,       \* server: the files in the user folders
    client_data, \* per client: ClientDataManager
    cnt,         \* per endpoint: frames arrived, handed, pushed, written (history)
    loop,        \* per endpoint: states enqueued, started, raised (history)
    ev,          \* the last queue event (history)
    running,     \* per endpoint: the running flag that the driving loop tests
    stopping,    \* per client: where a call of FileClient.stop stands
    call,        \* the last direct call of a function and its outcome
    handler      \* the server's ServerInterface and ConnectionHandler, by themselves

framingVars == <<conn, wire, sent, kinds, muxAlive>>
cryptoVars == <<chan, derived, op>>
netVars == <<connections, connection_map, input_buffer, output_buffer, sock, cnt, ev>>
sessionVars == <<encryption, worker, current, pc, locals, state_queue, loop>>
dataVars == <<users, connected_users, logs, folders, files>>
lifeVars == <<running, stopping>>
systemVars ==
    <<clients, netVars, sessionVars, dataVars, ui_left, client_data, lifeVars, call, handler>>
vars == <<conn, wire, sent, kinds, muxAlive, now, chan, derived, op, systemVars>>

\* Optional values: None is the empty sequence, a present value x is <<x>>
None == <<>>
Some(x) == <<x>>

\* the result of int() and float() where Python raises ValueError
ValueError == -1

(***************************************************************************)
(* Bounds                                                                  *)
(***************************************************************************)
MaxMsgs == 2        \* frames pushed on the framing connection
MaxBodyLen == 2     \* bytes in one message body
MaxClock == 10      \* the clock stops ticking here
MaxElapsed == 1     \* ms between two consecutive time.time() calls
MaxPriv == 2        \* private keys a channel may draw
MaxBlocks == 1      \* plaintexts reach one byte past this many cipher blocks
NConns == 2         \* connections to the server
MaxUi == 3          \* states the user of a client enqueues

(***************************************************************************)
(* Bytes and text helpers                                                  *)
(***************************************************************************)
packet_header_length == 32
RecvSize == 4096
StaleMs == 500
SP == 32
DOT == 46
ZERO == 48
StartClock == 9

\* message bodies: one per length, alternating a space and a digit so that a
\* body can look like a piece of a header
BodyBytes == <<SP, ZERO + 1>>
BodyOf(n) == [i \in 1..n |-> BodyBytes[1 + ((i - 1) % 2)]]
Bodies == {BodyOf(n) : n \in 0..MaxBodyLen}

\* the shortest and the longest time between two consecutive clock reads
TimeDiffs == {0, MaxElapsed}

Min(a, b) == IF a < b THEN a ELSE b

Take(s, n) == SubSeq(s, 1, Min(n, Len(s)))
Drop(s, n) == SubSeq(s, Min(n, Len(s)) + 1, Len(s))

IsPrefix(s, t) == Len(s) <= Len(t) /\ SubSeq(t, 1, Len(s)) = s

IsDigit(b) == b >= ZERO /\ b <= ZERO + 9

\* str(n) for a non-negative integer, as ASCII codes
RECURSIVE str_int(_)
str_int(n) == IF n < 10 THEN <<ZERO + n>> ELSE Append(str_int(n \div 10), ZERO + (n % 10))

\* str(x) for the float time.time() * 1000; the clock of the model counts
\* whole milliseconds, which Python renders with a ".0" fraction
str_float(t) == str_int(t) \o <<DOT, ZERO>>

RECURSIVE Zeros(_)
Zeros(n) == IF n <= 0 THEN <<>> ELSE <<ZERO>> \o Zeros(n - 1)

\* str.zfill(width): left-pad with "0" up to width, never truncate
zfill(s, width) == IF Len(s) >= width THEN s ELSE Zeros(width - Len(s)) \o s

\* bytes.split(sep): the parts between occurrences of sep
RECURSIVE split(_, _)
split(s, sep) ==
    IF \A i \in 1..Len(s) : s[i] # sep THEN <<s>>
    ELSE LET i == CHOOSE k \in 1..Len(s) : s[k] = sep /\ \A j \in 1..(k - 1) : s[j] # sep
         IN  <<SubSeq(s, 1, i - 1)>> \o split(SubSeq(s, i + 1, Len(s)), sep)

RECURSIVE DigitsValue(_)
DigitsValue(s) ==
    IF Len(s) = 0 THEN 0 ELSE 10 * DigitsValue(SubSeq(s, 1, Len(s) - 1)) + (s[Len(s)] - ZERO)

\* int(b"..."): the value, or ValueError
int(s) == IF Len(s) > 0 /\ \A i \in 1..Len(s) : IsDigit(s[i]) THEN DigitsValue(s) ELSE ValueError

\* float(b"..."): digits, optionally a point and more digits; the value is
\* kept in whole milliseconds
float(s) ==
    LET parts == split(s, DOT)
    IN  IF Len(parts) = 1 THEN int(parts[1])
        ELSE IF Len(parts) = 2 /\ (Len(parts[1]) > 0 \/ Len(parts[2]) > 0)
                /\ (Len(parts[1]) = 0 \/ int(parts[1]) # ValueError)
                /\ (Len(parts[2]) = 0 \/ int(parts[2]) # ValueError)
             THEN IF Len(parts[1]) = 0 THEN 0 ELSE int(parts[1])
        ELSE ValueError

(***************************************************************************)
(* connection.py: framing codec                                            *)
(***************************************************************************)
PacketHeader(len, ts) == [message_length |-> len, timestamp |-> ts]

Connection ==
    [input_buffer |-> <<>>, output_buffer |-> <<>>,
     network_buffer |-> <<>>, message_buffer |-> <<>>,
     message_header |-> None, message_bytes_remaining |-> 0]

\* _reset_read as it would be if it kept the bytes of the message
_reset_read_keeps_buffer(c) ==
    [c EXCEPT !.message_header = None, !.message_bytes_remaining = 0]

_reset_read(c) ==
    [c EXCEPT !.message_header = None, !.message_bytes_remaining = 0, !.message_buffer = <<>>]

\* The header of one frame as ConnectionHandler.write renders it from the
\* text of the length and the text of the clock
header_text(length_text, clock_text) ==
    zfill(length_text \o <<SP>> \o clock_text, packet_header_length)
message_header_of(message, t) == header_text(str_int(Len(message)), str_float(t))
\* write without the test of the header's width
sendall_arg_unchecked(message_header, message) == Some(message_header \o message)
\* what write gives to sendall, or None when it returns before it
sendall_arg(message_header, message) ==
    IF Len(message_header) > packet_header_length THEN None
    ELSE Some(message_header \o message)

\* Result of one step of the read loop: the connection, the value the step
\* returns to the loop (buffer_empty) and whether it raised
Step(c, ret, raised) == [c |-> c, ret |-> ret, raised |-> raised]

_read_header(c) ==
    IF Len(c.network_buffer) < packet_header_length THEN Step(c, TRUE, FALSE)
    ELSE LET header == SubSeq(c.network_buffer, 1, packet_header_length)
             header_parts == split(header, SP)
             len == int(header_parts[1])
         IN  IF len = ValueError THEN Step(c, TRUE, TRUE)
             ELSE LET c1 == [c EXCEPT !.message_bytes_remaining = len]
                  IN  IF Len(header_parts) < 2 \/ float(header_parts[2]) = ValueError
                      THEN Step(c1, TRUE, TRUE)
                      ELSE Step([c1 EXCEPT
                                   !.message_header = Some(PacketHeader(len, float(header_parts[2]))),
                                   !.network_buffer = Drop(c.network_buffer, packet_header_length)],
                                FALSE, FALSE)

\* _read_body as it would be if the completed body took the whole network
\* buffer with it instead of leaving the bytes of the next frame behind
_read_body_drops_rest(c, time_diff) ==
    LET net_buffer_length == Len(c.network_buffer)
    IN  IF net_buffer_length < c.message_bytes_remaining
        THEN Step([c EXCEPT !.message_buffer = @ \o c.network_buffer,
                            !.message_bytes_remaining = @ - net_buffer_length,
                            !.network_buffer = <<>>], TRUE, FALSE)
        ELSE LET message == c.message_buffer \o Take(c.network_buffer, c.message_bytes_remaining)
                 c1 == [c EXCEPT !.message_buffer = message,
                                 !.network_buffer = <<>>,
                                 !.input_buffer = Append(@, message)]
             IN  Step(_reset_read(c1), FALSE, FALSE)

\* time_diff is the time between the two time.time() calls of lines 170-171
_read_body(c, time_diff) ==
    LET net_buffer_length == Len(c.network_buffer)
    IN  IF net_buffer_length < c.message_bytes_remaining
        THEN Step([c EXCEPT !.message_buffer = @ \o c.network_buffer,
                            !.message_bytes_remaining = @ - net_buffer_length,
                            !.network_buffer = <<>>], TRUE, FALSE)
        ELSE IF c.message_header = None THEN Step(_reset_read(c), TRUE, FALSE)
        ELSE IF time_diff < 0 \/ time_diff > StaleMs THEN Step(_reset_read(c), TRUE, FALSE)
        ELSE LET message == c.message_buffer \o Take(c.network_buffer, c.message_bytes_remaining)
                 c1 == [c EXCEPT !.message_buffer = message,
                                 !.network_buffer = Drop(@, c.message_bytes_remaining),
                                 !.input_buffer = Append(@, message)]
             IN  Step(_reset_read(c1), FALSE, FALSE)

\* the while loop of ConnectionHandler.read
RECURSIVE read_loop(_, _)
read_loop(c, time_diff) ==
    LET r == IF c.message_header # None THEN _read_body(c, time_diff) ELSE _read_header(c)
    IN  IF r.raised \/ r.ret THEN r ELSE read_loop(r.c, time_diff)

\* ConnectionHandler.read on received data (non-empty)
read(c, data, time_diff) ==
    read_loop([c EXCEPT !.network_buffer = @ \o data], time_diff)

\* what kind of boundary the received chunk ends or contains
ChunkKinds(before, after) ==
    (IF after.message_header = None /\ Len(after.network_buffer) > 0 THEN {"header_split"} ELSE {})
    \cup (IF after.message_header # None /\ Len(after.message_buffer) > 0 THEN {"body_split"} ELSE {})
    \cup (IF Len(after.input_buffer) >= Len(before.input_buffer) + 2 THEN {"multi"} ELSE {})

(***************************************************************************)
(* encryption.py: the secure channel.  The primitives of the cryptography  *)
(* library are modelled by small functions with the same algebra: ECDH by  *)
(* Diffie-Hellman in the multiplicative group modulo a prime, HKDF by a    *)
(* deterministic function of secret and info, AES by a keyed byte-wise     *)
(* permutation of a block; CBC chaining and PKCS7 padding are computed in  *)
(* full.                                                                   *)
(***************************************************************************)
Peers == {"A", "B"}

GroupPrime == 23
GroupGen == 5
BlockSize == 16
KeyLen == 32
IvLen == 16
Byte == 256
INFO_KEY == 1      \* info=b"encrypted packet message"
INFO_IV == 2       \* info=b"CBC vector"

PrivKeys == 1..MaxPriv

RECURSIVE PowMod(_, _, _)
PowMod(b, e, m) == IF e = 0 THEN 1 % m ELSE (b * PowMod(b, e - 1, m)) % m

\* EllipticCurvePrivateKey.public_key(): the public point of a private scalar
public_key_of(d) == PowMod(GroupGen, d, GroupPrime)

\* EllipticCurvePrivateKey.exchange(ECDH(), peer_public_key)
ecdh_exchange(d, peer_public) == PowMod(peer_public, d, GroupPrime)

\* HKDF(SHA256, length, salt=None, info).derive(secret)
HKDF(length, info, secret) == [i \in 1..length |-> (secret * 31 + info * 17 + i * 7) % Byte]

RECURSIVE xor(_, _)
xor(a, b) == IF a = 0 /\ b = 0 THEN 0 ELSE ((a + b) % 2) + 2 * xor(a \div 2, b \div 2)

XorBlock(x, y) == [i \in 1..BlockSize |-> xor(x[i], y[i])]

\* the block cipher under a key, and its inverse
EncryptBlock(key, block) ==
    [i \in 1..BlockSize |-> (block[i] + key[i] + key[BlockSize + i]) % Byte]
DecryptBlock(key, block) ==
    [i \in 1..BlockSize |-> (block[i] + 2 * Byte - key[i] - key[BlockSize + i]) % Byte]

\* Cipher(algorithms.AES(derived_key), modes.CBC(cbc_vec))
Cipher(key, iv) == [key |-> key, iv |-> iv]

\* encryptor.update(data) + encryptor.finalize() of a fresh CBC encryptor
RECURSIVE cbc_encrypt(_, _, _)
cbc_encrypt(key, prev, data) ==
    IF Len(data) = 0 THEN <<>>
    ELSE LET c == EncryptBlock(key, XorBlock(Take(data, BlockSize), prev))
         IN  c \o cbc_encrypt(key, c, Drop(data, BlockSize))

\* decryptor.update(data) + decryptor.finalize() of a fresh CBC decryptor
RECURSIVE cbc_decrypt(_, _, _)
cbc_decrypt(key, prev, data) ==
    IF Len(data) = 0 THEN <<>>
    ELSE LET c == Take(data, BlockSize)
         IN  XorBlock(DecryptBlock(key, c), prev) \o cbc_decrypt(key, c, Drop(data, BlockSize))

\* what a call returns when it raises
Raised == <<ValueError>>

\* padding.PKCS7(128).padder(): between 1 and 16 bytes, each the pad length
pkcs7_pad(data) ==
    LET n == BlockSize - (Len(data) % BlockSize)
    IN  data \o [i \in 1..n |-> n]

\* padding.PKCS7(128).unpadder(): raises on a length that is not a positive
\* multiple of the block size or on invalid padding bytes
pkcs7_unpad(data) ==
    IF Len(data) = 0 \/ Len(data) % BlockSize # 0 THEN Raised
    ELSE LET n == data[Len(data)]
         IN  IF n < 1 \/ n > BlockSize THEN Raised
             ELSE IF \E i \in (Len(data) - n + 1)..Len(data) : data[i] # n THEN Raised
             ELSE SubSeq(data, 1, Len(data) - n)

\* NetworkEncryption.__init__
NetworkEncryption ==
    [_enabled |-> FALSE, _private_key |-> None, public_key |-> None,
     _shared_key |-> None, _cipher |-> None]

set_enabled(n, enabled) == [n EXCEPT !._enabled = enabled]

generate_keys(n, d) ==
    [n EXCEPT !._private_key = Some(d), !.public_key = Some(public_key_of(d))]

\* exchange_keys raises when no key pair was generated
exchange_keys_raises(n) == n._private_key = None

\* exchange_keys as it would be if the secret were computed from the
\* channel's own public key instead of the peer's
exchange_keys_own_key(n, public_key) ==
    IF exchange_keys_raises(n) THEN n
    ELSE LET shared == ecdh_exchange(n._private_key[1], n.public_key[1])
             derived_key == HKDF(KeyLen, INFO_KEY, shared)
             cbc_vec == HKDF(IvLen, INFO_IV, shared)
         IN  [n EXCEPT !._shared_key = Some(shared),
                       !._cipher = Some(Cipher(derived_key, cbc_vec))]

exchange_keys(n, public_key) ==
    IF exchange_keys_raises(n) THEN n
    ELSE LET shared == ecdh_exchange(n._private_key[1], public_key)
             derived_key == HKDF(KeyLen, INFO_KEY, shared)
             cbc_vec == HKDF(IvLen, INFO_IV, shared)
         IN  [n EXCEPT !._shared_key = Some(shared),
                       !._cipher = Some(Cipher(derived_key, cbc_vec))]

\* decrypt as it would be without the unpadding step
decrypt_keeps_padding(n, message) ==
    IF ~n._enabled \/ n._cipher = None THEN message
    ELSE IF Len(message) % BlockSize # 0 THEN Raised
    ELSE cbc_decrypt(n._cipher[1].key, n._cipher[1].iv, message)

encrypt(n, message) ==
    IF ~n._enabled \/ n._cipher = None THEN message
    ELSE cbc_encrypt(n._cipher[1].key, n._cipher[1].iv, pkcs7_pad(message))

decrypt(n, message) ==
    IF ~n._enabled \/ n._cipher = None THEN message
    ELSE IF Len(message) % BlockSize # 0 THEN Raised
    ELSE pkcs7_unpad(cbc_decrypt(n._cipher[1].key, n._cipher[1].iv, message))

\* the channel encrypts and decrypts: it is enabled and has a cipher
Ready(n) == n._enabled /\ n._cipher # None

(***************************************************************************)
(* The system: one server process and client processes, one connection per *)
(* client.  An endpoint <<p, c>> is connection c as process p holds it.    *)
(* Frames travel whole (the codec above puts the byte stream back into     *)
(* frames); envelopes are records, a ciphertext is a sealed envelope.      *)
(***************************************************************************)
Server == 0
Conns == 1..NConns
ServerEp(c) == <<Server, c>>
ClientEp(c) == <<c, c>>
ServerEps == {ServerEp(c) : c \in Conns}
ClientEps == {ClientEp(c) : c \in Conns}
Endpoints == ServerEps \cup ClientEps
Procs == {Server} \cup Conns
Proc(e) == e[1]
ConnOf(e) == e[2]
IsServer(e) == e[1] = Server
Peer(e) == IF IsServer(e) THEN ClientEp(e[2]) ELSE ServerEp(e[2])

ServerPort == 50000
ClientPortBase == 40000
ServerIp == "127.0.0.1"
ClientIp(c) == <<"10.0.0.1", "10.0.0.2", "10.0.0.3", "10.0.0.4">>[c]

\* sock.getpeername(): the address of the other end
getpeername(e) ==
    IF IsServer(e) THEN [ip |-> ClientIp(ConnOf(e)), port |-> ClientPortBase + ConnOf(e)]
    ELSE [ip |-> ServerIp, port |-> ServerPort]

\* the private scalar ec.generate_private_key draws at an endpoint: fresh and
\* unlike any other endpoint's
PrivKeyOf(e) == IF IsServer(e) THEN ConnOf(e) ELSE NConns + ConnOf(e)

\* the second coordinate of the public point with first coordinate x
point_y(x) == (x * x + 1) % GroupPrime
public_numbers(public_key) == [x |-> public_key, y |-> point_y(public_key)]
\* EllipticCurvePublicNumbers(x, y, curve).public_key() raises off the curve
on_curve(x, y) == x \in 1..(GroupPrime - 1) /\ y = point_y(x)

(***************************************************************************)
(* shared/data.py: envelopes (model_dump_json) and model_validate_json     *)
(***************************************************************************)
User == 1
Admin == 2

AuthRequest(authenticated, x, y) ==
    [action |-> "auth", authenticated |-> authenticated, x |-> x, y |-> y]
AuthConfirmation(authenticated) == [action |-> "auth", authenticated |-> authenticated]
BasicResponse(success, message) ==
    [action |-> "response", success |-> success, message |-> message]
LoginRequest(register_user, email, password) ==
    [action |-> "login", register_user |-> register_user, email |-> email, password |-> password]
LoginResponse(success, message, level) ==
    [action |-> "login_response", success |-> success, message |-> message, level |-> level]
LogoutRequest == [action |-> "logout"]
ViewFilesRequest(user_email) == [action |-> "view_files_request", user_email |-> user_email]
ViewFilesResponse(success, message, file_list) ==
    [action |-> "view_files_response", success |-> success, message |-> message,
     files |-> file_list]
RemoveFilesRequest(user_email, file_list) ==
    [action |-> "remove_files", user_email |-> user_email, files |-> file_list]
ViewAdminDataRequest == [action |-> "view_admin_data_request"]
UploadStart == [action |-> "upload_start"]
UploadFile(name) == [action |-> "upload_file", name |-> name]
UploadEnd == [action |-> "upload_end"]
UploadResult(success, message, path) ==
    [action |-> "upload_result", success |-> success, message |-> message, path |-> path]
ViewAdminDataResponse(success, message, data) ==
    [action |-> "view_admin_data_response", success |-> success, message |-> message,
     data |-> data]

\* the Literal of the action field and the fields without a default
Schemas ==
    [AuthRequest |-> [action |-> "auth", fields |-> {"authenticated", "x", "y"}],
     AuthConfirmation |-> [action |-> "auth", fields |-> {"authenticated"}],
     BasicResponse |-> [action |-> "response", fields |-> {"success", "message"}],
     LoginRequest |-> [action |-> "login", fields |-> {"register_user", "email", "password"}],
     LoginResponse |-> [action |-> "login_response", fields |-> {"success", "message", "level"}],
     LogoutRequest |-> [action |-> "logout", fields |-> {}],
     UploadStart |-> [action |-> "upload_start", fields |-> {}],
     UploadFile |-> [action |-> "upload_file", fields |-> {"name"}],
     UploadResult |-> [action |-> "upload_result", fields |-> {"success", "message"}],
     ViewFilesRequest |-> [action |-> "view_files_request", fields |-> {"user_email"}],
     ViewFilesResponse |-> [action |-> "view_files_response", fields |-> {"success", "message"}],
     RemoveFilesRequest |-> [action |-> "remove_files", fields |-> {"user_email", "files"}],
     ViewAdminDataRequest |-> [action |-> "view_admin_data_request", fields |-> {}],
     ViewAdminDataResponse |->
         [action |-> "view_admin_data_response", fields |-> {"success", "message"}]]

\* model_validate_json succeeds (extra fields are ignored); above it, a
\* validation that does not look at the Literal of the action field
model_validate_any_action(schema, m) ==
    /\ "action" \in DOMAIN m
    /\ Schemas[schema].fields \subseteq DOMAIN m
model_validate(schema, m) ==
    /\ "action" \in DOMAIN m
    /\ m.action = Schemas[schema].action
    /\ Schemas[schema].fields \subseteq DOMAIN m

(***************************************************************************)
(* Frames at envelope level: encrypt seals an envelope under the channel's *)
(* cipher, decrypt opens what was sealed under the same cipher and raises  *)
(* (padding or length error) on anything else                              *)
(***************************************************************************)
RaiseMark == [action |-> "raise"]
\* Python's None as an item of the inbound queue and as what a receive returns
NoMessage == [action |-> "None"]
Sealed(m) == "action" \in DOMAIN m /\ m.action = "ciphertext"

EncryptFrame(n, m) ==
    IF ~n._enabled \/ n._cipher = None THEN m
    ELSE [action |-> "ciphertext", cipher |-> n._cipher[1], body |-> m]

DecryptFrame(n, m) ==
    IF ~n._enabled \/ n._cipher = None THEN m
    ELSE IF Sealed(m) /\ m.cipher = n._cipher[1] THEN m.body
    ELSE RaiseMark

\* get_message: get_message_raw, then bytes.decode("utf-8"), which raises on
\* ciphertext that was passed through
get_message(n, m) ==
    LET msg == DecryptFrame(n, m)
    IN  IF m = NoMessage THEN NoMessage
        ELSE IF Sealed(msg) THEN RaiseMark ELSE msg

\* the bytes of a frame that is no JSON text
Blob(x) == [raw |-> x]
is_json(m) == "raw" \notin DOMAIN m

(***************************************************************************)
(* connection.py: the registry                                             *)
(***************************************************************************)
is_connected(map, ip, port) == \E t \in map : t.ip = ip /\ t.port = port

get_connection(map, ip, port) ==
    IF ~is_connected(map, ip, port) THEN None
    ELSE Some((CHOOSE t \in map : t.ip = ip /\ t.port = port).c)

\* connection_map[str(ip)] = {str(port): connection_data}
add_connection_map(map, ip, port, c) ==
    {t \in map : t.ip # ip} \cup {[ip |-> ip, port |-> port, c |-> c]}

\* the endpoint's own ConnectionData is what the registry returns for its address
Registered(e) ==
    get_connection(connection_map[Proc(e)], getpeername(e).ip, getpeername(e).port)
        = Some(ConnOf(e))

\* get_message_raw found no connection: the worker was not yet inside
\* Queue.get when the registry lost it
NoConnection(e) == ~Registered(e) /\ ~locals[e].in_get

Tagged(msgs, c, n0) == [i \in 1..Len(msgs) |-> [msg |-> msgs[i], via |-> c, n |-> n0 + i]]

NoEvent ==
    [kind |-> "none", e |-> <<0, 0>>, via |-> 0, n |-> 0, expect |-> 0,
     sealed |-> FALSE, opened |-> FALSE, ok |-> TRUE, state |-> "none"]

(***************************************************************************)
(* server_state.py: ServerDataManager.  d is the manager's data:           *)
(* [users, connected_users, logs, folders, files]                          *)
(***************************************************************************)
Emails == {"a@x", "b@x"}
FileOrder == <<"f1", "f2">>     \* the order in which rglob lists a folder

UserData(email, password, privilege) ==
    [email |-> email, password |-> password, privilege |-> privilege]
Interaction(user_email, message, timestamp) ==
    [user_email |-> user_email, message |-> message, timestamp |-> timestamp]
UserView(u) == [email |-> u.email, privilege |-> u.privilege]

is_user(d, email) == \E i \in 1..Len(d.users) : d.users[i].email = email

get_user(d, email) ==
    IF ~is_user(d, email) THEN None
    ELSE Some(d.users[CHOOSE i \in 1..Len(d.users) : d.users[i].email = email])

get_user_count(d) == Len(d.users)

add_log(d, email, message) ==
    [d EXCEPT !.logs = Append(@, Interaction(email, message, now \div 1000))]

add_user(d, email, password, privilege_level) ==
    IF is_user(d, email) THEN d
    ELSE [d EXCEPT !.users = Append(@, UserData(email, password, privilege_level))]

HasEntry(d, addr) == \E t \in d.connected_users : t.ip = addr.ip /\ t.port = addr.port

\* (above it, a lookup that takes the first account for a connection
\* without an entry)
get_connected_user_default(d, addr) ==
    IF d.users = <<>> THEN None
    ELSE IF ~HasEntry(d, addr) THEN Some(d.users[1])
    ELSE get_user(d, (CHOOSE t \in d.connected_users :
                          t.ip = addr.ip /\ t.port = addr.port).email)
get_connected_user(d, addr) ==
    IF ~HasEntry(d, addr) THEN None
    ELSE get_user(d, (CHOOSE t \in d.connected_users :
                          t.ip = addr.ip /\ t.port = addr.port).email)

\* ServerDataManager.login: the result and the data afterwards (above it, a
\* login that records nothing)
login_records_nothing(d, addr, email, password) == [ok |-> TRUE, d |-> d]
login(d, addr, email, password) ==
    LET user == get_user(d, email)
    IN  IF user = None \/ user[1].password # password \/ HasEntry(d, addr)
        THEN [ok |-> FALSE, d |-> d]
        ELSE [ok |-> TRUE,
              d |-> [d EXCEPT !.connected_users =
                         @ \cup {[ip |-> addr.ip, port |-> addr.port, email |-> email]}]]

\* ServerDataManager.logout (above it, a logout that keeps the entry)
logout_keeps_entry(d, addr) == [ok |-> HasEntry(d, addr), d |-> d]
logout(d, addr) ==
    IF ~HasEntry(d, addr) THEN [ok |-> FALSE, d |-> d]
    ELSE [ok |-> TRUE,
          d |-> [d EXCEPT !.connected_users =
                     {t \in @ : ~(t.ip = addr.ip /\ t.port = addr.port)}]]

\* a file of a user folder
FileData(email, name, content) == [email |-> email, name |-> name, body |-> content]

\* base_dir / name: the folder and the file that the path leads to; a name is
\* joined as it came, and ".." in it leads out of the folder
file_path(email, name) ==
    CASE name = "../a@x/f1" -> [email |-> "a@x", name |-> "f1"]
      [] name = "../a@x/f2" -> [email |-> "a@x", name |-> "f2"]
      [] OTHER -> [email |-> email, name |-> name]
At(f, path) == f.email = path.email /\ f.name = path.name

\* Path.exists (the path leads through base_dir), mkdir and
\* open(path, "wb").write, unlink
exists(d, email, name) ==
    email \in d.folders /\ \E f \in d.files : At(f, file_path(email, name))
write(d, email, name, content) ==
    [d EXCEPT !.files = {f \in @ : ~At(f, file_path(email, name))}
                            \cup {FileData(file_path(email, name).email,
                                           file_path(email, name).name, content)},
              !.folders = @ \cup {email}]
unlink(d, email, name) ==
    [d EXCEPT !.files = {f \in @ : ~At(f, file_path(email, name))}]

ListOf(names) == SelectSeq(FileOrder, LAMBDA f : f \in names)

get_user_files(d, email) ==
    IF get_user(d, email) = None \/ d.folders = {} \/ email \notin d.folders THEN None
    ELSE Some(ListOf({f.name : f \in {g \in d.files : g.email = email}}))

(***************************************************************************)
(* The session states.  A state carries k, its place in the order of       *)
(* enqueueing on its connection, and src, the k of the state whose run     *)
(* enqueued it (0: enqueued from outside a run)                            *)
(***************************************************************************)
Authenticate == [state |-> "Authenticate", k |-> 0, src |-> 0]
IDLE_STATE == [state |-> "Idle", k |-> 0, src |-> 0]
Login(register, email, password) ==
    [state |-> "Login", register |-> register, email |-> email, password |-> password]
Logout == [state |-> "Logout"]
Upload == [state |-> "Upload"]
ViewFiles(email, admin_view) ==
    [state |-> "ViewFiles", email |-> email, admin_view |-> admin_view]
server_ViewFiles(user_email) == [state |-> "ViewFiles", user_email |-> user_email]
RemoveFiles(user_email, file_list) ==
    [state |-> "RemoveFiles", user_email |-> user_email, files |-> file_list]
ViewAdminData == [state |-> "ViewAdminData"]
\* the Upload of the client, and a path: the name of the file and what open
\* and read give, None when they raise
client_Upload(paths) == [state |-> "Upload", paths |-> paths]
Path(name, content) == [name |-> name, content |-> content]

RequestStates == {"Login", "Logout", "Upload", "ViewFiles", "RemoveFiles", "ViewAdminData"}

\* what a step of a run comes to: whether it took a frame from the inbound
\* queue, the channel afterwards, the envelopes it pushed (as sealed by the
\* channel at the time of the push), where the run stands ("end": it
\* returned or raised), the states it enqueued, and its local variables
Outcome(took, enc, out, next_pc, enq, raised, loc) ==
    [took |-> took, enc |-> enc, out |-> out, pc |-> next_pc, enq |-> enq,
     raised |-> raised, locals |-> loc]
NoLocals ==
    [confirm_msg |-> None, to_enqueue |-> <<>>, in_get |-> FALSE, privilege_level |-> None,
     connected_user |-> None, file_data |-> None, paths |-> <<>>]
Raise(took, enc) == Outcome(took, enc, <<>>, "end", <<>>, TRUE, NoLocals)
Return(took, enc, out, enq) == Outcome(took, enc, out, "end", enq, FALSE, NoLocals)

(***************************************************************************)
(* server_state.py: the runs, as functions of the state, the peer address, *)
(* the channel n and the data d                                            *)
(***************************************************************************)
\* Authenticate.run up to the blocking get_message
server_Authenticate_send(e, n) ==
    LET n1 == generate_keys(n, PrivKeyOf(e))
        numbers == public_numbers(n1.public_key[1])
        auth_request == AuthRequest(FALSE, numbers.x, numbers.y)
    IN  IF ~Registered(e) THEN Raise(FALSE, n1)
        ELSE Outcome(FALSE, n1, <<EncryptFrame(n1, auth_request)>>, "reply", <<>>, FALSE,
                     NoLocals)

\* Authenticate.run from exchange_keys on: the confirmation is pushed, then the
\* channel is enabled
server_Authenticate_confirm(n, auth_response) ==
    LET n1 == exchange_keys(n, auth_response.x)
    IN  Return(TRUE, set_enabled(n1, TRUE), <<EncryptFrame(n1, AuthConfirmation(TRUE))>>, <<>>)

\* Authenticate.run from the message that get_message returned
server_Authenticate_reply(e, n, frame) ==
    LET msg == get_message(n, frame)
    IN  IF NoConnection(e) THEN Raise(FALSE, n)
        ELSE IF msg = NoMessage THEN Return(TRUE, n, <<>>, <<>>)
        ELSE IF msg = RaiseMark THEN Raise(TRUE, n)
        ELSE IF ~model_validate("AuthRequest", msg) THEN Raise(TRUE, n)
        ELSE IF ~on_curve(msg.x, msg.y) THEN Raise(TRUE, n)
        ELSE IF exchange_keys_raises(n) THEN Raise(TRUE, n)
        ELSE IF ~Registered(e) THEN Raise(TRUE, exchange_keys(n, msg.x))
        ELSE server_Authenticate_confirm(n, msg)

_login(st, addr, d) ==
    LET user == get_user(d, st.email)
        r == login(d, addr, st.email, st.password)
    IN  IF user = None
        THEN [d |-> d, response |-> LoginResponse(FALSE, "Account does not exist", None)]
        ELSE IF user[1].password # st.password
        THEN [d |-> d, response |-> LoginResponse(FALSE, "Incorrect password", None)]
        ELSE IF get_connected_user(d, addr) # None
        THEN [d |-> d, response |-> LoginResponse(FALSE, "Already logged in", None)]
        ELSE IF ~r.ok
        THEN [d |-> r.d, response |-> LoginResponse(FALSE, "Failed to login", None)]
        ELSE [d |-> r.d,
              response |-> LoginResponse(TRUE, "Successfully logged in",
                                         Some(user[1].privilege))]

\* _register from add_log on, with the privilege level it has computed
_register_add(st, d, privilege_level) ==
    [d |-> add_user(add_log(d, st.email, <<"Account registered">>),
                    st.email, st.password, privilege_level),
     response |-> LoginResponse(TRUE, "Successfully registered account",
                                Some(privilege_level))]

\* the privilege level of a new account
first_is_admin(d) == IF get_user_count(d) = 0 THEN Admin ELSE User

\* _register when no other thread runs between its calls (above it, a
\* _register that does not look for the account)
_register_unchecked(st, d) == _register_add(st, d, first_is_admin(d))
_register(st, d) ==
    IF is_user(d, st.email)
    THEN [d |-> d, response |-> LoginResponse(FALSE, "Account already exists", None)]
    ELSE _register_add(st, d, first_is_admin(d))

server_Login_run(st, addr, d) == IF st.register THEN _register(st, d) ELSE _login(st, addr, d)

server_Logout_run(st, addr, d) ==
    LET r == logout(d, addr)
    IN  IF get_connected_user(d, addr) = None
        THEN [d |-> d, response |-> BasicResponse(FALSE, "Not logged in")]
        ELSE IF r.ok
        THEN [d |-> r.d, response |-> BasicResponse(TRUE, "Successfully logged out")]
        ELSE [d |-> r.d, response |-> BasicResponse(FALSE, "Failed to logout")]

server_ViewFiles_run(st, addr, d) ==
    LET connected_user == get_connected_user(d, addr)
        file_paths == get_user_files(d, st.user_email)
        relative_paths == IF file_paths = None THEN <<>> ELSE file_paths[1]
    IN  IF connected_user = None
        THEN [d |-> d, response |-> ViewFilesResponse(FALSE, "Not logged in", None)]
        ELSE IF connected_user[1].email # st.user_email /\ connected_user[1].privilege < Admin
        THEN [d |-> d, response |-> ViewFilesResponse(FALSE, "Insufficient permission", None)]
        ELSE [d |-> d,
              response |-> ViewFilesResponse(TRUE, "Successfully viewed files",
                                             Some(relative_paths))]

removed_message ==
    <<"Successfully removed 0 file(s)", "Successfully removed 1 file(s)",
      "Successfully removed 2 file(s)">>

\* the loop over self.files: the data afterwards and removed_count
RECURSIVE remove_each(_, _, _, _, _)
remove_each(names, st, connected_user, d, removed_count) ==
    IF names = <<>> THEN [d |-> d, removed_count |-> removed_count]
    ELSE LET same_user == connected_user.email = st.user_email
             log_msg == IF same_user THEN <<"Removed", Head(names)>>
                        ELSE <<"Removed", Head(names), "from folder of", st.user_email>>
             d1 == unlink(d, st.user_email, Head(names))
         IN  IF ~exists(d, st.user_email, Head(names))
             THEN remove_each(Tail(names), st, connected_user, d, removed_count)
             ELSE remove_each(Tail(names), st, connected_user,
                              add_log(d1, connected_user.email, log_msg), removed_count + 1)

server_RemoveFiles_run(st, addr, d) ==
    LET connected_user == get_connected_user(d, addr)
        no_files == [action |-> "view_files_response", success |-> FALSE]
        r == remove_each(st.files, st, connected_user[1], d, 0)
    IN  IF connected_user = None
        THEN [d |-> d, response |-> no_files @@ [message |-> "Not logged in"]]
        ELSE IF connected_user[1].email # st.user_email /\ connected_user[1].privilege < Admin
        THEN [d |-> d, response |-> no_files @@ [message |-> "Insufficient permission"]]
        ELSE IF st.user_email \notin d.folders
        THEN [d |-> d, response |-> no_files @@ [message |-> "No user data folder exists"]]
        ELSE [d |-> r.d, response |-> no_files @@ [message |-> removed_message[1 + r.removed_count]]]

\* Upload._upload_file and the rest of the loop body, from the message that
\* get_message returned: [o |-> the step, d |-> the data afterwards]
server_Upload_message(e, n, frame, d, email) ==
    LET msg == get_message(n, frame)
        rejected == UploadResult(FALSE, "File already exists", None)
        ready == UploadResult(TRUE, "Upload ready", None)
        logged == add_log(d, email, <<"Uploaded", msg.name>>)
    IN  IF NoConnection(e) THEN [o |-> Raise(FALSE, n), d |-> d]
        ELSE IF msg = NoMessage THEN [o |-> Return(TRUE, n, <<>>, <<>>), d |-> d]
        ELSE IF msg = RaiseMark \/ ~is_json(msg) THEN [o |-> Raise(TRUE, n), d |-> d]
        ELSE IF "action" \in DOMAIN msg /\ msg.action = "upload_end"
        THEN [o |-> Return(TRUE, n, <<>>, <<>>), d |-> d]
        ELSE IF ~model_validate("UploadFile", msg) THEN [o |-> Raise(TRUE, n), d |-> d]
        ELSE IF exists(d, email, msg.name)
        THEN [o |-> IF ~Registered(e) THEN Raise(TRUE, n)
                    ELSE Outcome(TRUE, n, <<EncryptFrame(n, rejected)>>, "message", <<>>,
                                 FALSE, [NoLocals EXCEPT !.connected_user = Some(email)]),
              d |-> logged]
        ELSE [o |-> IF ~Registered(e) THEN Raise(TRUE, n)
                    ELSE Outcome(TRUE, n, <<EncryptFrame(n, ready)>>, "content", <<>>, FALSE,
                                 [NoLocals EXCEPT !.connected_user = Some(email),
                                                  !.file_data = Some(msg.name)]),
              d |-> d]

\* Upload._upload_file from the frame that get_message_raw returned, and the
\* rest of the loop body
server_Upload_content(e, n, frame, d, email, name) ==
    LET content_msg == DecryptFrame(n, frame)
        written == write(d, email, name, content_msg)
        result == UploadResult(TRUE, <<"Successfully uploaded", name>>, Some(name))
    IN  IF NoConnection(e) THEN [o |-> Raise(FALSE, n), d |-> d]
        ELSE IF frame = NoMessage THEN [o |-> Return(TRUE, n, <<>>, <<>>), d |-> d]
        ELSE IF content_msg = RaiseMark THEN [o |-> Raise(TRUE, n), d |-> d]
        ELSE IF file_path(email, name).email \notin d.folders \cup {email}
        THEN [o |-> Raise(TRUE, n), d |-> [d EXCEPT !.folders = @ \cup {email}]]
        ELSE [o |-> IF ~Registered(e) THEN Raise(TRUE, n)
                    ELSE Outcome(TRUE, n, <<EncryptFrame(n, result)>>, "message", <<>>,
                                 FALSE, [NoLocals EXCEPT !.connected_user = Some(email)]),
              d |-> add_log(written, email, <<"Uploaded", name>>)]

server_ViewAdminData_run(st, addr, d) ==
    LET connected_user == get_connected_user(d, addr)
        data == [users |-> [i \in 1..Len(d.users) |-> UserView(d.users[i])],
                 interactions |-> d.logs]
    IN  IF connected_user = None
        THEN [d |-> d, response |-> ViewAdminDataResponse(FALSE, "Not logged in", None)]
        ELSE IF connected_user[1].privilege < Admin
        THEN [d |-> d,
              response |-> ViewAdminDataResponse(FALSE, "Insufficient permission", None)]
        ELSE [d |-> d,
              response |-> ViewAdminDataResponse(TRUE, "Successfully retrieved data",
                                                 Some(data))]

\* Idle.run: the schemas in the order in which it tries them
IdleOrder ==
    <<"UploadStart", "ViewFilesRequest", "LoginRequest", "LogoutRequest",
      "RemoveFilesRequest", "ViewAdminDataRequest">>

\* the state Idle.run enqueues for a message that validates against schema
idle_successor(schema, message) ==
    CASE schema = "UploadStart" -> Upload
      [] schema = "ViewFilesRequest" -> server_ViewFiles(message.user_email)
      [] schema = "LoginRequest" ->
             Login(message.register_user, message.email, message.password)
      [] schema = "LogoutRequest" -> Logout
      [] schema = "RemoveFilesRequest" -> RemoveFiles(message.user_email, message.files)
      [] schema = "ViewAdminDataRequest" -> ViewAdminData

\* the try blocks of Idle.run over the schemas of order: the first schema
\* that validates the message decides, and none enqueues nothing
RECURSIVE dispatch_in(_, _)
dispatch_in(order, message) ==
    IF order = <<>> THEN <<>>
    ELSE IF model_validate(Head(order), message)
    THEN <<idle_successor(Head(order), message)>>
    ELSE dispatch_in(Tail(order), message)

\* Idle.run: the states the message makes it enqueue
server_Idle_dispatch(message) == dispatch_in(IdleOrder, message)

server_Idle_run(e, n, frame) ==
    LET message == get_message(n, frame)
    IN  IF NoConnection(e) THEN Raise(FALSE, n)
        ELSE IF message = NoMessage THEN Return(TRUE, n, <<>>, <<>>)
        ELSE IF message = RaiseMark THEN Raise(TRUE, n)
        ELSE Return(TRUE, n, <<>>, server_Idle_dispatch(message))

(***************************************************************************)
(* client_state.py: ClientDataManager and the runs                         *)
(***************************************************************************)
ClientDataManager ==
    [logged_in_user |-> None, files |-> <<>>, viewed_files |-> None, admin_data |-> None]

sorted(file_list) == ListOf({file_list[i] : i \in 1..Len(file_list)})

\* Authenticate.run from the message that the first get_message returned
client_Authenticate_request(e, n, frame) ==
    LET message == get_message(n, frame)
        n1 == generate_keys(n, PrivKeyOf(e))
        n2 == exchange_keys(n1, message.x)
        numbers == public_numbers(n1.public_key[1])
        auth_response == AuthRequest(TRUE, numbers.x, numbers.y)
    IN  IF NoConnection(e) THEN Raise(FALSE, n)
        ELSE IF message = NoMessage THEN Return(TRUE, n, <<>>, <<>>)
        ELSE IF message = RaiseMark THEN Raise(TRUE, n)
        ELSE IF ~model_validate("AuthRequest", message) THEN Raise(TRUE, n)
        ELSE IF ~on_curve(message.x, message.y) THEN Raise(TRUE, n1)
        ELSE IF ~Registered(e) THEN Raise(TRUE, n2)
        ELSE Outcome(TRUE, n2, <<EncryptFrame(n2, auth_response)>>, "reply", <<>>, FALSE,
                     NoLocals)

\* Authenticate.run from the message that push_request returned
client_Authenticate_confirm(e, n, frame) ==
    LET confirm_msg == get_message(n, frame)
    IN  IF NoConnection(e) THEN Raise(FALSE, n)
        ELSE IF confirm_msg = NoMessage THEN Return(TRUE, n, <<>>, <<>>)
        ELSE IF confirm_msg = RaiseMark THEN Raise(TRUE, n)
        ELSE IF ~model_validate("AuthConfirmation", confirm_msg) THEN Raise(TRUE, n)
        ELSE Outcome(TRUE, set_enabled(n, TRUE), <<>>, "end", <<>>, FALSE,
                     [NoLocals EXCEPT !.confirm_msg = Some(confirm_msg)])

\* the request envelope that the run of a state pushes
request_of(st) ==
    CASE st.state = "Login" -> LoginRequest(st.register, st.email, st.password)
      [] st.state = "Logout" -> LogoutRequest
      [] st.state = "ViewFiles" -> ViewFilesRequest(st.email)
      [] st.state = "RemoveFiles" -> RemoveFilesRequest(st.user_email, st.files)
      [] st.state = "ViewAdminData" -> ViewAdminDataRequest

\* push_request up to the blocking get_message
push_request(e, n, message) ==
    IF ~Registered(e) THEN Raise(FALSE, n)
    ELSE Outcome(FALSE, n, <<EncryptFrame(n, message)>>, "reply", <<>>, FALSE, NoLocals)

\* what the rest of a run comes to: whether it raised, the states it enqueued
\* and the client data afterwards
Rest(raised, enq, data) == [raised |-> raised, enq |-> enq, data |-> data]

\* the states a successful Login enqueues, in the order of the calls (below
\* that, the calls in the other order)
Login_enqueues_swapped(st) == <<ViewAdminData, ViewFiles(st.email, FALSE)>>
Login_enqueues(st) == <<ViewFiles(st.email, FALSE), ViewAdminData>>

client_Login_reply(st, response, cd) ==
    IF ~model_validate("LoginResponse", response) THEN Rest(TRUE, <<>>, cd)
    ELSE IF ~response.success THEN Rest(FALSE, <<>>, cd)
    ELSE IF st.register THEN Rest(FALSE, <<>>, cd)
    ELSE Rest(FALSE, Login_enqueues(st),
              [cd EXCEPT !.logged_in_user =
                             Some(UserData(st.email, st.password, response.level))])

client_Logout_reply(st, response, cd) ==
    IF ~model_validate("BasicResponse", response) THEN Rest(TRUE, <<>>, cd)
    ELSE IF response.success THEN Rest(FALSE, <<>>, ClientDataManager)
    ELSE Rest(FALSE, <<>>, cd)

client_ViewFiles_reply(st, response, cd) ==
    LET file_list == IF "files" \in DOMAIN response THEN response.files ELSE None
    IN  IF ~model_validate("ViewFilesResponse", response) THEN Rest(FALSE, <<>>, cd)
        ELSE IF ~response.success THEN Rest(FALSE, <<>>, cd)
        ELSE IF file_list = None THEN Rest(TRUE, <<>>, cd)
        ELSE IF st.admin_view
        THEN Rest(FALSE, <<>>, [cd EXCEPT !.viewed_files = Some(<<st.email, file_list[1]>>)])
        ELSE Rest(FALSE, <<>>, [cd EXCEPT !.files = sorted(file_list[1])])

client_RemoveFiles_reply(st, response, cd) ==
    IF ~model_validate("BasicResponse", response) THEN Rest(TRUE, <<>>, cd)
    ELSE Rest(FALSE, <<>>, cd)

client_ViewAdminData_reply(st, response, cd) ==
    IF ~model_validate("ViewAdminDataResponse", response) THEN Rest(TRUE, <<>>, cd)
    ELSE IF ~response.success THEN Rest(FALSE, <<>>, cd)
    ELSE Rest(FALSE, <<>>,
              [cd EXCEPT !.admin_data = IF "data" \in DOMAIN response THEN response.data
                                        ELSE None])

\* ClientDataManager.add_file
add_file(cd, file) == [cd EXCEPT !.files = sorted(Append(@, file))]

\* Upload.run from the end of a call of _upload: the next turn of the loop
\* up to the get_message of its push_request, or upload_end and the return
client_Upload_next(e, n, took, paths) ==
    IF ~Registered(e) THEN Raise(took, n)
    ELSE IF paths = <<>> THEN Return(took, n, <<EncryptFrame(n, UploadEnd)>>, <<>>)
    ELSE Outcome(took, n, <<EncryptFrame(n, UploadFile(Head(paths).name))>>, "file_reply",
                 <<>>, FALSE, [NoLocals EXCEPT !.paths = paths])

\* Upload.run up to the first get_message
client_Upload_start(e, n, st) ==
    LET next == client_Upload_next(e, n, FALSE, st.paths)
    IN  IF next.raised THEN next
        ELSE [next EXCEPT !.out = <<EncryptFrame(n, UploadStart)>> \o @]

\* _check_response raises on None and on what is no UploadResult
checked(response) ==
    response # NoMessage /\ response # RaiseMark /\ model_validate("UploadResult", response)

\* Upload._upload from the reply to upload_file on: [o |-> the step, data |->
\* the client data afterwards]
client_Upload_file_reply(e, n, frame, paths, cd) ==
    LET response == get_message(n, frame)
        content == Head(paths).content
    IN  IF NoConnection(e) THEN [o |-> Raise(FALSE, n), data |-> cd]
        ELSE IF ~checked(response) THEN [o |-> Raise(TRUE, n), data |-> cd]
        ELSE IF ~response.success
        THEN [o |-> client_Upload_next(e, n, TRUE, Tail(paths)), data |-> cd]
        ELSE IF content = None THEN [o |-> Raise(TRUE, n), data |-> cd]
        ELSE IF ~Registered(e) THEN [o |-> Raise(TRUE, n), data |-> cd]
        ELSE [o |-> Outcome(TRUE, n, <<EncryptFrame(n, content[1])>>, "content_reply", <<>>,
                            FALSE, [NoLocals EXCEPT !.paths = paths]),
              data |-> cd]

\* Upload._upload from the reply to the content on, and the rest of the turn
client_Upload_content_reply(e, n, frame, paths, cd) ==
    LET response == get_message(n, frame)
    IN  IF NoConnection(e) THEN [o |-> Raise(FALSE, n), data |-> cd]
        ELSE IF ~checked(response) THEN [o |-> Raise(TRUE, n), data |-> cd]
        ELSE [o |-> client_Upload_next(e, n, TRUE, Tail(paths)),
              data |-> IF response.success /\ response.path # None
                       THEN add_file(cd, response.path[1]) ELSE cd]

(***************************************************************************)
(* The driving loop of a session worker and its queue of pending states:   *)
(* run the current state once; a failure inside the run is caught at the   *)
(* loop boundary; pop one pending state if present, else default to Idle   *)
(***************************************************************************)
\* enqueue_state: put at the tail of the queue (k0 states were enqueued before)
enqueue_state(q, sts, k0, src) ==
    q \o [i \in 1..Len(sts) |-> sts[i] @@ [k |-> k0 + i, src |-> src]]

\* (above it, a loop that goes back to Idle whatever is pending)
next_state_idle(q) == IDLE_STATE
next_state(q) == IF q = <<>> THEN IDLE_STATE ELSE Head(q)
pending_after(q) == IF q = <<>> THEN q ELSE Tail(q)

\* the worker after a run (above it, a loop that lets the failure through)
worker_after_uncaught(raised) == IF raised THEN "dead" ELSE "running"
worker_after(raised) == "running"

NewLoop ==
    [enqueued |-> 0, ran |-> <<>>, failed |-> <<>>, confirmed |-> None, absent |-> 0,
     stop_found |-> "none"]

\* the worker thread of a new connection starts in Authenticate
start_worker(e) ==
    /\ worker' = [worker EXCEPT ![e] = "running"]
    /\ current' = [current EXCEPT ![e] = Authenticate]
    /\ pc' = [pc EXCEPT ![e] = "start"]
    /\ UNCHANGED <<locals, state_queue, loop>>

\* the loop after a step r of the run of the current state
loop_step(e, r) ==
    LET q == enqueue_state(state_queue[e], r.enq, loop[e].enqueued, current[e].k)
        ended == r.pc = "end"
    IN  /\ locals' = [locals EXCEPT ![e] = r.locals]
        /\ state_queue' = [state_queue EXCEPT ![e] = IF ended THEN pending_after(q) ELSE q]
        /\ current' = [current EXCEPT ![e] = IF ended THEN next_state(q) ELSE @]
        /\ pc' = [pc EXCEPT ![e] = IF ended THEN "start" ELSE r.pc]
        /\ worker' = [worker EXCEPT ![e] =
               IF ~ended THEN @
               ELSE IF worker_after(r.raised) = "running" /\ ~running[e] THEN "stopped"
               ELSE worker_after(r.raised)]
        /\ loop' = [loop EXCEPT ![e] =
               [enqueued |-> @.enqueued + Len(r.enq),
                absent |-> @.absent + (IF r.took /\ Head(input_buffer[Proc(e)]).msg = NoMessage
                                       THEN 1 ELSE 0),
                stop_found |-> @.stop_found,
                ran |-> IF ended /\ q # <<>> THEN Append(@.ran, Head(q)) ELSE @.ran,
                failed |-> IF r.raised
                           THEN Append(@.failed, [state |-> current[e].state,
                                                  k |-> current[e].k, behind |-> Len(q)])
                           ELSE @.failed,
                confirmed |-> IF r.locals.confirm_msg # None THEN r.locals.confirm_msg
                              ELSE @.confirmed]]

(***************************************************************************)
(* Initial values of the system, for the clients cs that are run and the   *)
(* number ui[c] of states that the user of client c may enqueue            *)
(***************************************************************************)
\* call: the function, its arguments and what it came to
NoCall == [fn |-> "none"]

\* ServerInterface and its ConnectionHandler once start has returned: the
\* flags, the registry, the selector's sockets, the sockets that were closed,
\* and where the listener thread, the multiplexer thread and a call of stop
\* stand.  A ConnectionData is the number of its accept; peer is the address
\* of each accepted socket, gone the sockets whose peer has closed or whose
\* connection broke, disconnected the calls of the disconnect callback per
\* ConnectionData, last the last step and removals the ConnectionData for
\* whose address remove_connection was called (history)
ServerInterface ==
    [running |-> TRUE, interface_running |-> TRUE, connections |-> <<>>,
     connection_map |-> {}, selector |-> {}, closed |-> {}, peer |-> <<>>, gone |-> {},
     disconnected |-> <<>>, listen_thread |-> "accept", connection_thread |-> "running",
     stop |-> "no", i |-> 0, last |-> [kind |-> "start", c |-> 0], removals |-> {}]
\* in the specifications that model the server by its endpoints
NoHandler == [ServerInterface EXCEPT !.last = [kind |-> "none", c |-> 0]]

NewCount == [arrived |-> 0, handed |-> 0, pushed |-> 0, written |-> 0]

SystemStart(cs, ui) ==
    /\ clients = cs
    /\ connections = [p \in Procs |-> <<>>]
    /\ connection_map = [p \in Procs |-> {}]
    /\ input_buffer = [p \in Procs |-> <<>>]
    /\ output_buffer = [p \in Procs |-> <<>>]
    /\ sock = [e \in Endpoints |-> <<>>]
    /\ encryption = [e \in Endpoints |-> NetworkEncryption]
    /\ worker = [e \in Endpoints |-> "none"]
    /\ current = [e \in Endpoints |-> Authenticate]
    /\ pc = [e \in Endpoints |-> "start"]
    /\ locals = [e \in Endpoints |-> NoLocals]
    /\ state_queue = [e \in Endpoints |-> <<>>]
    /\ ui_left = [c \in Conns |-> IF c \in cs THEN ui[c] ELSE 0]
    /\ users = <<UserData("a@x", "pw", Admin)>>
    /\ connected_users = {}
    /\ logs = <<>>
    /\ folders = {"a@x"}
    /\ files = {FileData("a@x", "f1", Blob("B1"))}
    /\ client_data = [c \in Conns |-> ClientDataManager]
    /\ cnt = [e \in Endpoints |-> NewCount]
    /\ loop = [e \in Endpoints |-> NewLoop]
    /\ ev = NoEvent
    /\ running = [e \in Endpoints |-> TRUE]
    /\ stopping = [c \in Conns |-> "no"]

(***************************************************************************)
(* Initial values of each group of variables                               *)
(***************************************************************************)
FramingStart ==
    /\ conn = Connection
    /\ wire = <<>>
    /\ sent = <<>>
    /\ kinds = {}
    /\ muxAlive = TRUE

\* op: the call, the channel it was made on, the channel that produced its
\* argument, the argument, the plaintext behind it, the outcome and the
\* channel as it was before the call
NoOp ==
    [call |-> "none", by |-> "A", src |-> "A", arg |-> <<>>, plain |-> <<>>, out |-> <<>>,
     pre |-> NetworkEncryption]

CryptoStart ==
    /\ chan = [n \in Peers |-> NetworkEncryption]
    /\ derived = [n \in Peers |-> None]
    /\ op = NoOp

(***************************************************************************)
(* SpecFraming: one connection, the writer's frames reach the reader's     *)
(* socket as a byte stream that recv cuts anywhere                         *)
(***************************************************************************)
InitFraming ==
    /\ FramingStart /\ CryptoStart /\ SystemStart({}, [c \in Conns |-> 0]) /\ now = StartClock
    /\ call = NoCall
    /\ handler = NoHandler

\* push_message_raw on a channel that is not enabled: the body is queued as is
FPush ==
    /\ Len(sent) + Len(conn.output_buffer) < MaxMsgs
    /\ \E message \in Bodies : conn' = [conn EXCEPT !.output_buffer = Append(@, message)]
    /\ UNCHANGED <<wire, sent, kinds, muxAlive, now>>
    /\ UNCHANGED <<cryptoVars, systemVars>>

\* ConnectionHandler.write: one frame, header then body, in one sendall; the
\* clock it reads has not gone back since the last write
FWrite ==
    /\ muxAlive
    /\ Len(conn.output_buffer) > 0
    /\ \E t \in now..MaxClock :
         LET message == Head(conn.output_buffer)
             message_header == message_header_of(message, t)
         IN  /\ now' = t
             /\ conn' = [conn EXCEPT !.output_buffer = Tail(@)]
             /\ IF sendall_arg(message_header, message) = None
                THEN UNCHANGED <<wire, sent>>
                ELSE /\ wire' = wire \o sendall_arg(message_header, message)[1]
                     /\ sent' = Append(sent, message)
    /\ UNCHANGED <<kinds, muxAlive>>
    /\ UNCHANGED <<cryptoVars, systemVars>>

\* service_connection on EVENT_READ: recv returns between 1 and 4096 of the
\* bytes in flight
FRead ==
    /\ muxAlive
    /\ Len(wire) > 0
    /\ \E n \in 1..Min(RecvSize, Len(wire)), time_diff \in TimeDiffs :
         LET r == read(conn, Take(wire, n), time_diff)
         IN  /\ conn' = r.c
             /\ muxAlive' = ~r.raised
             /\ wire' = Drop(wire, n)
             /\ kinds' = kinds \cup ChunkKinds(conn, r.c)
    /\ UNCHANGED <<sent, now>>
    /\ UNCHANGED <<cryptoVars, systemVars>>

NextFraming == FPush \/ FWrite \/ FRead

SpecFraming == InitFraming /\ [][NextFraming]_vars

\* C1: whatever the chunking, the inbound queue holds exactly the bodies
\* written so far whose bytes have all been received, in order: it is always a
\* prefix of the sent sequence, and equals it once no byte is in flight.
C1_ChunkingInvariance ==
    /\ muxAlive
    /\ IsPrefix(conn.input_buffer, sent)
    /\ (wire = <<>> => conn.input_buffer = sent /\ conn.message_header = None
                       /\ conn.network_buffer = <<>>)

C1_Witness ==
    /\ Len(sent) = MaxMsgs
    /\ wire = <<>>
    /\ conn.input_buffer = sent
    /\ sent[1] # sent[2]
    /\ kinds = {"header_split", "body_split", "multi"}

(***************************************************************************)
(* SpecCrypto: two channels generate keys, exchange them, enable, and      *)
(* encrypt and decrypt plaintexts of every interesting length              *)
(***************************************************************************)
PlainLens ==
    {0, 1} \cup UNION {{k * BlockSize - 1, k * BlockSize, k * BlockSize + 1} : k \in 1..MaxBlocks}

\* plaintexts of each length, and two that end like padding
Plaintexts == {BodyOf(n) : n \in PlainLens} \cup {<<1>>, <<7, 2, 2>>}

Other(n) == CHOOSE m \in Peers : m # n

InitCrypto ==
    /\ FramingStart /\ CryptoStart /\ SystemStart({}, [c \in Conns |-> 0]) /\ now = StartClock
    /\ call = NoCall
    /\ handler = NoHandler

GenerateKeys(n) ==
    /\ \E d \in PrivKeys : chan' = [chan EXCEPT ![n] = generate_keys(@, d)]
    /\ op' = [NoOp EXCEPT !.call = "generate_keys", !.by = n, !.pre = chan[n]]
    /\ UNCHANGED <<derived, framingVars, now, systemVars>>

\* exchange_keys with the public key the other channel has generated, or, the
\* other having none, with some public key
ExchangeKeys(n) ==
    /\ \E pub \in (IF chan[Other(n)].public_key = None
                   THEN {public_key_of(d) : d \in PrivKeys}
                   ELSE {chan[Other(n)].public_key[1]}) :
         /\ chan' = [chan EXCEPT ![n] = exchange_keys(@, pub)]
         /\ derived' = IF exchange_keys_raises(chan[n]) THEN derived
                       ELSE [derived EXCEPT ![n] = Some([private_key |-> chan[n]._private_key[1],
                                                         peer_public_key |-> pub])]
         /\ op' = [NoOp EXCEPT !.call = "exchange_keys", !.by = n, !.pre = chan[n],
                               !.out = IF exchange_keys_raises(chan[n]) THEN Raised ELSE <<>>]
    /\ UNCHANGED <<framingVars, now, systemVars>>

SetEnabled(n) ==
    /\ \E enabled \in BOOLEAN : chan' = [chan EXCEPT ![n] = set_enabled(@, enabled)]
    /\ op' = [NoOp EXCEPT !.call = "set_enabled", !.by = n, !.pre = chan[n]]
    /\ UNCHANGED <<derived, framingVars, now, systemVars>>

Encrypt(n) ==
    /\ \E message \in Plaintexts :
         op' = [call |-> "encrypt", by |-> n, src |-> n, arg |-> message, plain |-> message,
                out |-> encrypt(chan[n], message), pre |-> chan[n]]
    /\ UNCHANGED <<chan, derived, framingVars, now, systemVars>>

\* decrypt of the frame the last encrypt produced, by either channel
Decrypt(n) ==
    /\ op.call = "encrypt"
    /\ op' = [call |-> "decrypt", by |-> n, src |-> op.by, arg |-> op.out, plain |-> op.plain,
              out |-> decrypt(chan[n], op.out), pre |-> chan[n]]
    /\ UNCHANGED <<chan, derived, framingVars, now, systemVars>>

NextCrypto ==
    \E n \in Peers : GenerateKeys(n) \/ ExchangeKeys(n) \/ SetEnabled(n) \/ Encrypt(n) \/ Decrypt(n)

SpecCrypto == InitCrypto /\ [][NextCrypto]_vars

(***************************************************************************)
(* The system: connections are made and accepted, the multiplexer of each  *)
(* process services its connections, the session workers run their states  *)
(* and the user of a client enqueues states                                *)
(***************************************************************************)
otherVars == <<framingVars, now, cryptoVars, clients, lifeVars, call, handler>>

\* the states the user of a client enqueues
UiStates ==
    {Login(FALSE, "a@x", "pw"), Login(TRUE, "b@x", "pw"), Logout, ViewFiles("a@x", TRUE),
     RemoveFiles("a@x", <<"f1">>), ViewAdminData}

Data ==
    [users |-> users, connected_users |-> connected_users, logs |-> logs,
     folders |-> folders, files |-> files]

SetData(d) ==
    /\ users' = d.users
    /\ connected_users' = d.connected_users
    /\ logs' = d.logs
    /\ folders' = d.folders
    /\ files' = d.files

\* ConnectionHandler.add_connection
add_connection(e) ==
    /\ connections' = [connections EXCEPT ![Proc(e)] = Append(@, ConnOf(e))]
    /\ connection_map' = [connection_map EXCEPT ![Proc(e)] =
           add_connection_map(@, getpeername(e).ip, getpeername(e).port, ConnOf(e))]
    /\ encryption' = [encryption EXCEPT ![e] = NetworkEncryption]

\* ClientInterface.start
ClientStart(c) ==
    /\ c \in clients
    /\ worker[ClientEp(c)] = "none"
    /\ add_connection(ClientEp(c))
    /\ start_worker(ClientEp(c))
    /\ UNCHANGED <<otherVars, input_buffer, output_buffer, sock, cnt, ev, dataVars, ui_left,
                   client_data>>

\* ServerInterface._listen: accept, add_connection, callback
ServerAccept(c) ==
    /\ worker[ClientEp(c)] # "none"
    /\ worker[ServerEp(c)] = "none"
    /\ add_connection(ServerEp(c))
    /\ start_worker(ServerEp(c))
    /\ UNCHANGED <<otherVars, input_buffer, output_buffer, sock, cnt, ev, dataVars, ui_left,
                   client_data>>

\* ConnectionHandler.service_connection of the connection c of process p: read
\* when the mask has EVENT_READ (recv returns the first k frames the socket
\* holds), then write
service_connection(p, c, read_ready, k) ==
    LET e == <<p, c>>
        got == IF read_ready THEN Take(sock[e], k) ELSE <<>>
        out == output_buffer[p]
        item == Head(out)
    IN  /\ \E i \in 1..Len(connections[p]) : connections[p][i] = c
        /\ read_ready => k \in 1..Len(sock[e])
        /\ ~read_ready => k = 0
        /\ input_buffer' = [input_buffer EXCEPT ![p] =
               @ \o [i \in 1..Len(got) |-> [msg |-> got[i], via |-> c, n |-> cnt[e].arrived + i]]]
        /\ output_buffer' = [output_buffer EXCEPT ![p] = IF out = <<>> THEN @ ELSE Tail(@)]
        /\ sock' = [sock EXCEPT ![e] = Drop(@, Len(got)),
                                ![Peer(e)] = IF out = <<>> THEN @ ELSE Append(@, item.msg)]
        /\ cnt' = [cnt EXCEPT ![e] =
               [@ EXCEPT !.arrived = @ + Len(got),
                         !.written = @ + (IF out = <<>> THEN 0 ELSE 1)]]
        /\ ev' = IF out = <<>> THEN ev
                 ELSE [kind |-> "write", e |-> e, via |-> item.via, n |-> item.n,
                       expect |-> cnt[e].written + 1, sealed |-> Sealed(item.msg),
                       opened |-> FALSE, ok |-> TRUE, state |-> "mux"]
        /\ UNCHANGED <<otherVars, connections, connection_map, sessionVars, dataVars, ui_left,
                       client_data>>

Running(e, name, at) == worker[e] = "running" /\ current[e].state = name /\ pc[e] = at

\* Queue.get blocks while the queue is empty; get_message_raw raises before
\* that when the registry does not hold the connection
CanGet(e) == input_buffer[Proc(e)] # <<>> \/ NoConnection(e)
HeadFrame(e) ==
    IF input_buffer[Proc(e)] = <<>> THEN RaiseMark ELSE Head(input_buffer[Proc(e)]).msg

\* the event of a session worker taking the head of the inbound queue
GetEvent(e, item) ==
    [kind |-> IF item.msg = NoMessage THEN "absent" ELSE "get", e |-> e, via |-> item.via, n |-> item.n, expect |-> cnt[e].handed + 1,
     sealed |-> Sealed(item.msg), opened |-> Ready(encryption[e]),
     ok |-> DecryptFrame(encryption[e], item.msg) # RaiseMark, state |-> current[e].state]

\* a step r of the run of the current state of e: get_message_raw takes the
\* head of the inbound queue, push_message_raw puts on the outbound queue
Finish(e, r) ==
    LET p == Proc(e)
    IN  /\ input_buffer' = IF r.took THEN [input_buffer EXCEPT ![p] = Tail(@)]
                           ELSE input_buffer
        /\ output_buffer' = [output_buffer EXCEPT ![p] =
               @ \o Tagged(r.out, ConnOf(e), cnt[e].pushed)]
        /\ cnt' = [cnt EXCEPT ![e] =
               [@ EXCEPT !.handed = @ + (IF r.took /\ HeadFrame(e) # NoMessage THEN 1 ELSE 0),
                         !.pushed = @ + Len(r.out)]]
        /\ ev' = IF r.took THEN GetEvent(e, Head(input_buffer[p])) ELSE ev
        /\ encryption' = [encryption EXCEPT ![e] = r.enc]
        /\ loop_step(e, r)
        /\ UNCHANGED <<otherVars, connections, connection_map, sock, ui_left>>

SrvAuthenticateSend(e) ==
    /\ IsServer(e) /\ Running(e, "Authenticate", "start")
    /\ Finish(e, server_Authenticate_send(e, encryption[e]))
    /\ UNCHANGED <<dataVars, client_data>>

SrvAuthenticateReply(e) ==
    /\ IsServer(e) /\ Running(e, "Authenticate", "reply") /\ CanGet(e)
    /\ Finish(e, server_Authenticate_reply(e, encryption[e], HeadFrame(e)))
    /\ UNCHANGED <<dataVars, client_data>>

SrvIdle(e) ==
    /\ IsServer(e) /\ Running(e, "Idle", "start") /\ CanGet(e)
    /\ Finish(e, server_Idle_run(e, encryption[e], HeadFrame(e)))
    /\ UNCHANGED <<dataVars, client_data>>

\* the end of the run of a request state of the server: the response is pushed
Respond(e, r) ==
    LET n == encryption[e]
    IN  /\ Finish(e, IF ~Registered(e) THEN Raise(FALSE, n)
                     ELSE Return(FALSE, n, <<EncryptFrame(n, r.response)>>, <<>>))
        /\ SetData(r.d)

\* Login.run; a _register that finds no account goes on to compute the
\* privilege level, and other threads may run before it adds the account
SrvLogin(e) ==
    /\ IsServer(e) /\ Running(e, "Login", "start")
    /\ IF current[e].register /\ ~is_user(Data, current[e].email)
       THEN /\ Finish(e, Outcome(FALSE, encryption[e], <<>>, "add", <<>>, FALSE,
                                 [NoLocals EXCEPT !.privilege_level =
                                      Some(first_is_admin(Data))]))
            /\ UNCHANGED dataVars
       ELSE Respond(e, server_Login_run(current[e], getpeername(e), Data))
    /\ UNCHANGED client_data

\* _register from add_log on, and the push of the response
SrvRegisterAdd(e) ==
    /\ IsServer(e) /\ Running(e, "Login", "add")
    /\ Respond(e, _register_add(current[e], Data, locals[e].privilege_level[1]))
    /\ UNCHANGED client_data

SrvLogout(e) ==
    /\ IsServer(e) /\ Running(e, "Logout", "start")
    /\ Respond(e, server_Logout_run(current[e], getpeername(e), Data))
    /\ UNCHANGED client_data

SrvViewFiles(e) ==
    /\ IsServer(e) /\ Running(e, "ViewFiles", "start")
    /\ Respond(e, server_ViewFiles_run(current[e], getpeername(e), Data))
    /\ UNCHANGED client_data

SrvRemoveFiles(e) ==
    /\ IsServer(e) /\ Running(e, "RemoveFiles", "start")
    /\ Respond(e, server_RemoveFiles_run(current[e], getpeername(e), Data))
    /\ UNCHANGED client_data

\* Upload.run up to its loop
SrvUpload(e) ==
    /\ IsServer(e) /\ Running(e, "Upload", "start")
    /\ LET connected_user == get_connected_user(Data, getpeername(e))
       IN  IF connected_user = None
           THEN Respond(e, [d |-> Data,
                            response |-> UploadResult(FALSE, "Not logged in", None)])
           ELSE /\ Finish(e, Outcome(FALSE, encryption[e], <<>>, "message", <<>>, FALSE,
                                     [NoLocals EXCEPT !.connected_user =
                                          Some(connected_user[1].email)]))
                /\ UNCHANGED dataVars
    /\ UNCHANGED client_data

\* Upload.run: a turn of the loop up to the end of the run, to the next
\* get_message or to the get_message_raw of _upload_file
SrvUploadMessage(e) ==
    /\ IsServer(e) /\ Running(e, "Upload", "message") /\ CanGet(e)
    /\ LET r == server_Upload_message(e, encryption[e], HeadFrame(e), Data,
                                      locals[e].connected_user[1])
       IN  Finish(e, r.o) /\ SetData(r.d)
    /\ UNCHANGED client_data

\* Upload.run: the rest of the turn, from the content frame on
SrvUploadContent(e) ==
    /\ IsServer(e) /\ Running(e, "Upload", "content") /\ CanGet(e)
    /\ LET r == server_Upload_content(e, encryption[e], HeadFrame(e), Data,
                                      locals[e].connected_user[1], locals[e].file_data[1])
       IN  Finish(e, r.o) /\ SetData(r.d)
    /\ UNCHANGED client_data

SrvViewAdminData(e) ==
    /\ IsServer(e) /\ Running(e, "ViewAdminData", "start")
    /\ Respond(e, server_ViewAdminData_run(current[e], getpeername(e), Data))
    /\ UNCHANGED client_data

CliAuthenticate(e) ==
    /\ ~IsServer(e) /\ Running(e, "Authenticate", "start") /\ CanGet(e)
    /\ Finish(e, client_Authenticate_request(e, encryption[e], HeadFrame(e)))
    /\ UNCHANGED <<dataVars, client_data>>

CliAuthenticateConfirm(e) ==
    /\ ~IsServer(e) /\ Running(e, "Authenticate", "reply") /\ CanGet(e)
    /\ Finish(e, client_Authenticate_confirm(e, encryption[e], HeadFrame(e)))
    /\ UNCHANGED <<dataVars, client_data>>

\* the run of a request state of the client up to the reply
CliRequest(e) ==
    /\ ~IsServer(e) /\ worker[e] = "running" /\ pc[e] = "start"
    /\ current[e].state \in RequestStates \ {"Upload"}
    /\ Finish(e, push_request(e, encryption[e], request_of(current[e])))
    /\ UNCHANGED <<dataVars, client_data>>

\* the message that the get_message of push_request returns
Response(e) == get_message(encryption[e], HeadFrame(e))

\* the run of a request state of the client from the reply on, up to its end
\* or to the point between its first and its second call of enqueue_state
Reply(e, r) ==
    LET n == encryption[e]
    IN  IF NoConnection(e) THEN Finish(e, Raise(FALSE, n)) /\ UNCHANGED client_data
        ELSE IF Response(e) = NoMessage
        THEN Finish(e, Return(TRUE, n, <<>>, <<>>)) /\ UNCHANGED client_data
        ELSE IF Response(e) = RaiseMark
        THEN Finish(e, Raise(TRUE, n)) /\ UNCHANGED client_data
        ELSE /\ Finish(e, IF Len(r.enq) > 1
                          THEN Outcome(TRUE, n, <<>>, "enqueue", <<Head(r.enq)>>, FALSE,
                                       [NoLocals EXCEPT !.to_enqueue = Tail(r.enq)])
                          ELSE Outcome(TRUE, n, <<>>, "end", r.enq, r.raised, NoLocals))
             /\ client_data' = [client_data EXCEPT ![ConnOf(e)] = r.data]

CliLoginReply(e) ==
    /\ ~IsServer(e) /\ Running(e, "Login", "reply") /\ CanGet(e)
    /\ Reply(e, client_Login_reply(current[e], Response(e), client_data[ConnOf(e)]))
    /\ UNCHANGED dataVars

\* Login.run: the second call of enqueue_state
CliLoginEnqueue(e) ==
    /\ ~IsServer(e) /\ Running(e, "Login", "enqueue")
    /\ Finish(e, Return(FALSE, encryption[e], <<>>, locals[e].to_enqueue))
    /\ UNCHANGED <<dataVars, client_data>>

CliLogoutReply(e) ==
    /\ ~IsServer(e) /\ Running(e, "Logout", "reply") /\ CanGet(e)
    /\ Reply(e, client_Logout_reply(current[e], Response(e), client_data[ConnOf(e)]))
    /\ UNCHANGED dataVars

CliViewFilesReply(e) ==
    /\ ~IsServer(e) /\ Running(e, "ViewFiles", "reply") /\ CanGet(e)
    /\ Reply(e, client_ViewFiles_reply(current[e], Response(e), client_data[ConnOf(e)]))
    /\ UNCHANGED dataVars

CliRemoveFilesReply(e) ==
    /\ ~IsServer(e) /\ Running(e, "RemoveFiles", "reply") /\ CanGet(e)
    /\ Reply(e, client_RemoveFiles_reply(current[e], Response(e), client_data[ConnOf(e)]))
    /\ UNCHANGED dataVars

CliViewAdminDataReply(e) ==
    /\ ~IsServer(e) /\ Running(e, "ViewAdminData", "reply") /\ CanGet(e)
    /\ Reply(e, client_ViewAdminData_reply(current[e], Response(e), client_data[ConnOf(e)]))
    /\ UNCHANGED dataVars

\* Upload.run of the client up to the get_message of the first push_request
CliUpload(e) ==
    /\ ~IsServer(e) /\ Running(e, "Upload", "start")
    /\ Finish(e, client_Upload_start(e, encryption[e], current[e]))
    /\ UNCHANGED <<dataVars, client_data>>

\* from the reply to upload_file to the next get_message or the end
CliUploadFileReply(e) ==
    /\ ~IsServer(e) /\ Running(e, "Upload", "file_reply") /\ CanGet(e)
    /\ LET r == client_Upload_file_reply(e, encryption[e], HeadFrame(e), locals[e].paths,
                                         client_data[ConnOf(e)])
       IN  Finish(e, r.o) /\ client_data' = [client_data EXCEPT ![ConnOf(e)] = r.data]
    /\ UNCHANGED dataVars

\* from the reply to the content to the next get_message or the end
CliUploadContentReply(e) ==
    /\ ~IsServer(e) /\ Running(e, "Upload", "content_reply") /\ CanGet(e)
    /\ LET r == client_Upload_content_reply(e, encryption[e], HeadFrame(e), locals[e].paths,
                                            client_data[ConnOf(e)])
       IN  Finish(e, r.o) /\ client_data' = [client_data EXCEPT ![ConnOf(e)] = r.data]
    /\ UNCHANGED dataVars

\* Idle.run of the client does nothing: the loop goes on to a pending state
CliIdle(e) ==
    /\ ~IsServer(e) /\ Running(e, "Idle", "start")
    /\ state_queue[e] # <<>> \/ ~running[e]
    /\ Finish(e, Return(FALSE, encryption[e], <<>>, <<>>))
    /\ UNCHANGED <<dataVars, client_data>>

\* the user of client c has a state enqueued
UiEnqueue(c, st) ==
    LET e == ClientEp(c)
    IN  /\ worker[e] = "running" /\ ui_left[c] > 0
        /\ state_queue' = [state_queue EXCEPT ![e] =
               enqueue_state(@, <<st>>, loop[e].enqueued, 0)]
        /\ loop' = [loop EXCEPT ![e].enqueued = @ + 1]
        /\ ui_left' = [ui_left EXCEPT ![c] = @ - 1]
        /\ UNCHANGED <<otherVars, netVars, encryption, worker, current, pc, locals, dataVars,
                       client_data>>

Next ==
    \/ \E c \in Conns : ClientStart(c)
    \/ \E c \in Conns : ServerAccept(c)
    \/ \E e \in Endpoints : service_connection(Proc(e), ConnOf(e), FALSE, 0)
    \/ \E e \in Endpoints : \E k \in 1..Len(sock[e]) :
           service_connection(Proc(e), ConnOf(e), TRUE, k)
    \/ \E e \in Endpoints : SrvAuthenticateSend(e)
    \/ \E e \in Endpoints : SrvAuthenticateReply(e)
    \/ \E e \in Endpoints : SrvIdle(e)
    \/ \E e \in Endpoints : SrvLogin(e)
    \/ \E e \in Endpoints : SrvRegisterAdd(e)
    \/ \E e \in Endpoints : SrvLogout(e)
    \/ \E e \in Endpoints : SrvViewFiles(e)
    \/ \E e \in Endpoints : SrvRemoveFiles(e)
    \/ \E e \in Endpoints : SrvViewAdminData(e)
    \/ \E e \in Endpoints : CliAuthenticate(e)
    \/ \E e \in Endpoints : CliAuthenticateConfirm(e)
    \/ \E e \in Endpoints : CliRequest(e)
    \/ \E e \in Endpoints : CliLoginReply(e)
    \/ \E e \in Endpoints : CliLoginEnqueue(e)
    \/ \E e \in Endpoints : CliLogoutReply(e)
    \/ \E e \in Endpoints : CliViewFilesReply(e)
    \/ \E e \in Endpoints : CliRemoveFilesReply(e)
    \/ \E e \in Endpoints : CliViewAdminDataReply(e)
    \/ \E e \in Endpoints : CliIdle(e)
    \/ \E c \in Conns : \E st \in UiStates : UiEnqueue(c, st)

\* one client and its connection
InitSession ==
    /\ FramingStart /\ CryptoStart /\ SystemStart({1}, [c \in Conns |-> MaxUi]) /\ now = StartClock
    /\ call = NoCall
    /\ handler = NoHandler
SpecSession == InitSession /\ [][Next]_vars

\* every client; the user of the last one has one state enqueued
Init ==
    /\ FramingStart /\ CryptoStart /\ now = StartClock
    /\ SystemStart(Conns, [c \in Conns |-> IF c = NConns THEN 1 ELSE 0])
    /\ call = NoCall
    /\ handler = NoHandler
Spec == Init /\ [][Next]_vars

(***************************************************************************)
(* SpecLife: one client and the server, where the client may be stopped    *)
(* and may lose its connection.  A session worker that has called          *)
(* get_message on an empty queue is inside Queue.get.  Every thread that   *)
(* can take a step eventually takes one.                                   *)
(***************************************************************************)
MaxLifeUi == 1      \* states the user of the client enqueues before a stop

\* the worker is at a call of get_message
AtGet(e) ==
    /\ worker[e] = "running"
    /\ \/ pc[e] = "reply"
       \/ pc[e] = "start" /\ current[e].state = (IF IsServer(e) THEN "Idle" ELSE "Authenticate")

\* get_message_raw has found the connection and waits in Queue.get
EnterGet(e) ==
    /\ AtGet(e) /\ Registered(e) /\ input_buffer[Proc(e)] = <<>> /\ ~locals[e].in_get
    /\ locals' = [locals EXCEPT ![e].in_get = TRUE]
    /\ UNCHANGED <<otherVars, netVars, encryption, worker, current, pc, state_queue, loop,
                   dataVars, ui_left, client_data>>

\* ConnectionHandler.remove_connection (no disconnect callback is set)
remove_connection(e) ==
    LET p == Proc(e)
        addr == getpeername(e)
    IN  IF ~Registered(e) THEN UNCHANGED <<connections, connection_map>>
        ELSE /\ connection_map' = [connection_map EXCEPT ![p] =
                    {t \in @ : ~(t.ip = addr.ip /\ t.port = addr.port)}]
             /\ connections' = [connections EXCEPT ![p] =
                    SelectSeq(@, LAMBDA c : c # ConnOf(e))]

\* service_connection of a client whose recv returns no bytes (the peer has
\* closed) or raises socket.error: read fails and the connection is removed
ConnectionLost(e) ==
    /\ ~IsServer(e) /\ worker[e] # "none" /\ Registered(e)
    /\ remove_connection(e)
    /\ UNCHANGED <<otherVars, input_buffer, output_buffer, sock, cnt, ev, sessionVars, dataVars,
                   ui_left, client_data>>

\* what FileClient.stop puts on the inbound queue (above it, a stop that puts
\* nothing)
stop_puts_nothing(c) == <<>>
stop_puts(c) == <<[msg |-> NoMessage, via |-> c, n |-> 0]>>

\* FileClient.stop up to the join of the worker thread
ClientStop(c) ==
    LET e == ClientEp(c)
    IN  /\ stopping[c] = "no" /\ worker[e] # "none"
        /\ running' = [running EXCEPT ![e] = FALSE]
        /\ input_buffer' = [input_buffer EXCEPT ![Proc(e)] = @ \o stop_puts(c)]
        /\ stopping' = [stopping EXCEPT ![c] = "join"]
        /\ loop' = [loop EXCEPT ![e].stop_found =
               IF worker[e] # "running" THEN "ended"
               ELSE IF locals[e].in_get /\ input_buffer[Proc(e)] = <<>> THEN "blocked"
               ELSE "busy"]
        /\ UNCHANGED <<framingVars, now, cryptoVars, clients, call, handler, connections,
                       connection_map, output_buffer, sock, cnt, ev, encryption, worker,
                       current, pc, locals, state_queue, dataVars, ui_left, client_data>>

\* FileClient.stop from the return of the join: network.stop
ClientStopJoined(c) ==
    LET e == ClientEp(c)
    IN  /\ stopping[c] = "join" /\ worker[e] \in {"stopped", "dead"}
        /\ remove_connection(e)
        /\ stopping' = [stopping EXCEPT ![c] = "done"]
        /\ UNCHANGED <<framingVars, now, cryptoVars, clients, call, handler, running, input_buffer,
                       output_buffer, sock, cnt, ev, sessionVars, dataVars, ui_left,
                       client_data>>

NextLife ==
    \/ Next
    \/ \E e \in Endpoints : EnterGet(e)
    \/ \E e \in Endpoints : ConnectionLost(e)
    \/ \E c \in Conns : ClientStop(c)
    \/ \E c \in Conns : ClientStopJoined(c)

InitLife ==
    /\ FramingStart /\ CryptoStart /\ now = StartClock
    /\ SystemStart({1}, [c \in Conns |-> MaxLifeUi])
    /\ call = NoCall
    /\ handler = NoHandler
SpecLife == InitLife /\ [][NextLife]_vars /\ WF_vars(NextLife)


\* C7: a frame encrypted and then decrypted by the same channel comes back as
\* the plaintext, whether the channel is enabled with a cipher (pad, CBC,
\* un-CBC, unpad) or not (pass-through); on a channel that is not enabled or
\* has no cipher, encrypt and decrypt return their argument.
C7_RoundTrip ==
    /\ (op.call = "decrypt" /\ op.by = op.src) => op.out = op.plain
    /\ (op.call \in {"encrypt", "decrypt"} /\ ~Ready(chan[op.by])) => op.out = op.arg

C7_Witness ==
    /\ op.call = "decrypt"
    /\ op.by = op.src
    /\ Ready(chan[op.by])
    /\ Len(op.plain) = BlockSize + 1
    /\ Len(op.arg) = 2 * BlockSize
    /\ op.out = op.plain

\* the two channels derived their ciphers from each other's public keys
Matched ==
    /\ derived["A"] # None
    /\ derived["B"] # None
    /\ derived["A"][1].peer_public_key = public_key_of(derived["B"][1].private_key)
    /\ derived["B"][1].peer_public_key = public_key_of(derived["A"][1].private_key)

\* C8: channels that exchanged each other's generated public keys hold the
\* same symmetric key and IV, and what one encrypts the other decrypts to the
\* plaintext; exchange_keys without a generated key pair raises and leaves
\* the channel as it was, with no cipher.
C8_KeyAgreement ==
    /\ Matched => /\ chan["A"]._cipher # None
                  /\ chan["A"]._cipher = chan["B"]._cipher
                  /\ chan["A"]._shared_key = chan["B"]._shared_key
    /\ (Matched /\ op.call = "decrypt" /\ Ready(chan["A"]) /\ Ready(chan["B"]))
          => op.out = op.plain
    /\ (op.call = "exchange_keys" /\ op.pre._private_key = None)
          => /\ op.out = Raised
             /\ chan[op.by] = op.pre
             /\ chan[op.by]._cipher = None
             /\ (~op.pre._enabled => ~chan[op.by]._enabled)

C8_Witness ==
    /\ Matched
    /\ derived["A"][1].private_key # derived["B"][1].private_key
    /\ chan["A"]._cipher = chan["B"]._cipher
    /\ op.call = "decrypt"
    /\ op.by # op.src
    /\ Ready(chan["A"]) /\ Ready(chan["B"])
    /\ Len(op.plain) = BlockSize + 1
    /\ op.arg # op.plain
    /\ op.out = op.plain

C8_WitnessRaise ==
    /\ op.call = "exchange_keys"
    /\ op.out = Raised
    /\ chan[op.by]._cipher = None

(***************************************************************************)
(* C2: per connection, the j-th frame handed to receive is the j-th frame  *)
(* that arrived on the connection's socket, and the j-th frame written to  *)
(* the socket is the j-th frame that send enqueued on the connection       *)
(***************************************************************************)
C2_PerConnectionOrdering ==
    ev.kind \in {"get", "write"} => <<ev.via, ev.n>> = <<ConnOf(ev.e), ev.expect>>

(***************************************************************************)
(* C3: a frame enqueued by send on a connection is written only to that    *)
(* connection's socket, and a frame put on a connection's inbound queue is *)
(* returned only by a receive on that connection                           *)
(***************************************************************************)
C3_ConnectionIsolation ==
    /\ ev.kind = "write" => ev.via = ConnOf(ev.e)
    /\ ev.kind = "get" => ev.via = ConnOf(ev.e)

(***************************************************************************)
(* C4: every frame is opened by the receiver in the mode in which the      *)
(* sender sealed it: the frames of the handshake are plaintext on both     *)
(* sides, every later frame is encrypted by the sender and decrypted by an *)
(* enabled receiver under the same cipher                                  *)
(***************************************************************************)
C4_ModeConsistency ==
    ev.kind = "get" =>
        /\ ev.sealed = ev.opened
        /\ ev.ok
        /\ ev.state = "Authenticate" => ~ev.sealed
        /\ ev.state # "Authenticate" => ev.sealed

(***************************************************************************)
(* C5: a channel is enabled only after the handshake was confirmed: the    *)
(* server's only with a cipher derived from the key it received, the       *)
(* client's only with a cipher and after a confirmation that reports       *)
(* authenticated = true                                                    *)
(***************************************************************************)
C5_EnabledOnlyAfterConfirmation ==
    \A e \in Endpoints :
        encryption[e]._enabled =>
            /\ encryption[e]._cipher # None
            /\ ~IsServer(e) =>
                   /\ loop[e].confirmed # None
                   /\ loop[e].confirmed[1].authenticated = TRUE

(***************************************************************************)
(* C6: once Authenticate has failed on a connection, its session machine   *)
(* runs no request state, and the server runs request states only on       *)
(* connections whose channel is enabled                                    *)
(***************************************************************************)
AuthFailed(e) == \E i \in 1..Len(loop[e].failed) : loop[e].failed[i].state = "Authenticate"

C6_FailedHandshakeFatal ==
    \A e \in Endpoints :
        current[e].state \in RequestStates =>
            /\ ~AuthFailed(e)
            /\ IsServer(e) => encryption[e]._enabled

(***************************************************************************)
(* C9: the states enqueued on a connection are run in the order in which   *)
(* they were enqueued: the i-th state run is the i-th state enqueued, the  *)
(* pending states are the ones enqueued after it, in order; and the        *)
(* ViewAdminData that a Login enqueued runs after the ViewFiles that the   *)
(* same Login enqueued                                                     *)
(***************************************************************************)
C9_StateQueueFIFO ==
    \A e \in Endpoints :
        LET ran == loop[e].ran
        IN  /\ \A i \in 1..Len(ran) : ran[i].k = i
            /\ \A i \in 1..Len(state_queue[e]) : state_queue[e][i].k = Len(ran) + i
            /\ Len(ran) + Len(state_queue[e]) = loop[e].enqueued
            /\ current[e].state \in RequestStates => current[e] = ran[Len(ran)]
            /\ \A i \in 1..Len(ran) :
                   (ran[i].state = "ViewAdminData" /\ ran[i].src > 0) =>
                       \E j \in 1..(i - 1) :
                           /\ ran[j].state = "ViewFiles" /\ ran[j].src = ran[i].src
                           /\ ~ran[j].admin_view
                           /\ ran[ran[i].src].state = "Login" /\ ran[i].src < j

\* a client ran a Login, then a state its user enqueued while the Login was
\* running, then the ViewFiles and the ViewAdminData that the Login enqueued
C9_Witness ==
    \E c \in Conns :
        LET ran == loop[ClientEp(c)].ran
        IN  /\ Len(ran) = 4
            /\ ran[1].state = "Login" /\ ran[2].src = 0
            /\ ran[3].state = "ViewFiles" /\ ran[3].src = 1
            /\ ran[4].state = "ViewAdminData" /\ ran[4].src = 1
            /\ current[ClientEp(c)] = ran[4]

MaxQueue == 2       \* items on the inbound queue of a direct call

\* queue.Queue.get(timeout=timeout): the head of the queue; on an empty queue
\* it waits, for ever without a timeout, and raises queue.Empty when the
\* timeout has elapsed
Queue_get(q, timeout) ==
    IF q # <<>> THEN [kind |-> "item", item |-> Head(q), q |-> Tail(q)]
    ELSE IF timeout = None THEN [kind |-> "blocks", item |-> NoMessage, q |-> q]
    ELSE [kind |-> "Empty", item |-> NoMessage, q |-> q]

\* ConnectionHandler.get_message_raw(ip, port, timeout) on the inbound queue q
\* and the channel n: what it comes to, the queue and the channel afterwards
get_message_raw(map, addr, q, n, timeout) ==
    LET got == Queue_get(q, timeout)
        msg == DecryptFrame(n, got.item)
    IN  IF get_connection(map, addr.ip, addr.port) = None
        THEN [kind |-> "raise", value |-> "Exception", q |-> q, n |-> n]
        ELSE IF got.kind = "blocks" THEN [kind |-> "blocks", value |-> "", q |-> q, n |-> n]
        ELSE IF got.kind = "Empty" THEN [kind |-> "raise", value |-> "Empty", q |-> q, n |-> n]
        ELSE IF got.item = NoMessage
        THEN [kind |-> "return", value |-> NoMessage, q |-> got.q, n |-> n]
        ELSE IF msg = RaiseMark THEN [kind |-> "raise", value |-> "ValueError", q |-> got.q, n |-> n]
        ELSE [kind |-> "return", value |-> msg, q |-> got.q, n |-> n]

\* a channel after a handshake with private key d and the peer's key
HandshakeDone(d, peer) ==
    set_enabled(exchange_keys(generate_keys(NetworkEncryption, d), public_key_of(peer)), TRUE)

QueueItems ==
    {NoMessage, LogoutRequest, ViewAdminDataRequest,
     EncryptFrame(HandshakeDone(1, 2), LogoutRequest),
     EncryptFrame(HandshakeDone(1, 3), LogoutRequest)}
Queues == UNION {[1..k -> QueueItems] : k \in 0..MaxQueue}

InitReceive ==
    /\ FramingStart /\ CryptoStart /\ SystemStart({}, [c \in Conns |-> 0]) /\ now = StartClock
    /\ handler = NoHandler
    /\ \E q \in Queues, timeout \in {None, Some(1)}, registered \in BOOLEAN,
          n \in {NetworkEncryption, HandshakeDone(1, 2)} :
          call = [fn |-> "none", q |-> q, timeout |-> timeout, n |-> n,
                  map |-> IF registered
                          THEN add_connection_map({}, ServerIp, ServerPort, 1) ELSE {},
                  result |-> [kind |-> "none"]]

\* the call returns or raises
Receive ==
    LET r == get_message_raw(call.map, [ip |-> ServerIp, port |-> ServerPort], call.q, call.n,
                             call.timeout)
    IN  /\ call.fn = "none" /\ r.kind # "blocks"
        /\ call' = [call EXCEPT !.fn = "get_message_raw", !.result = r]
        /\ UNCHANGED <<framingVars, now, cryptoVars, clients, handler, netVars, sessionVars, dataVars,
                       ui_left, client_data, lifeVars>>

SpecReceive == InitReceive /\ [][Receive]_vars

\* C12: a receive with a timeout, on a registered connection, whose timeout
\* elapses with nothing on the inbound queue returns the absent result as a
\* value, as a receive that finds the sentinel does, and both leave the queue
\* and the channel as they were.
C12_TimeoutReturnsAbsent ==
    /\ call.fn = "get_message_raw" /\ call.map # {} =>
        /\ (call.q = <<>> /\ call.timeout # None) \/ (call.q # <<>> /\ Head(call.q) = NoMessage)
               => /\ call.result.kind = "return"
                  /\ call.result.value = NoMessage
                  /\ call.result.n = call.n
        /\ call.q = <<>> => call.result.q = call.q
        /\ call.q # <<>> /\ Head(call.q) = NoMessage => call.result.q \in {call.q, Tail(call.q)}

\* C11: stopping a connection clears its running flag and puts the sentinel
\* on its inbound queue; a receive that was blocked on it at that moment
\* returns the absent result and the driving loop terminates; and stop, which
\* joins the worker, returns.
WorkerStepped(e) == <<pc[e], current[e], worker[e]>>' # <<pc[e], current[e], worker[e]>>

SpecLost == InitLife /\ [][NextLife]_vars /\ WF_vars(Next)

\* the connection of the running worker e was destroyed by service_connection
\* (peer close or socket error), not by a stop, and e is at a receive
LostAtGet(e) ==
    /\ ~IsServer(e) /\ worker[e] = "running" /\ AtGet(e)
    /\ ~Registered(e) /\ stopping[ConnOf(e)] = "no"

\* C13: a session worker that is blocked in receive on a connection when it is
\* destroyed by a socket error or a peer close, or that calls receive on it
\* afterwards, eventually gets the absent result.
C13_DestructionObservable ==
    \A e \in ClientEps : LostAtGet(e) ~> (loop[e].absent > 0)
C13_Lost == \E e \in ClientEps : LostAtGet(e) /\ locals[e].in_get /\ input_buffer[Proc(e)] = <<>>

(***************************************************************************)
(* SpecServer: the server with every connection accepted and its handshake *)
(* done, each session worker in Idle.  The peers send any envelope of      *)
(* ServerEnvelopes, sealed by their channel; the multiplexer's read puts   *)
(* it on the inbound queue.  The store is fresh, or holds the first        *)
(* account, which the first connection may have logged in to.              *)
(***************************************************************************)
MaxRequests == 3    \* envelopes the peers send, over all connections

RECURSIVE SumOver(_, _)
SumOver(f, S) ==
    IF S = {} THEN 0 ELSE LET x == CHOOSE y \in S : TRUE IN f[x] + SumOver(f, S \ {x})
\* the frames that have arrived at the server
Arrived == SumOver([c \in Conns |-> cnt[ServerEp(c)].arrived], Conns)

NotAnEnvelope == [raw |-> "text"]
ServerEnvelopes ==
    {LoginRequest(TRUE, "a@x", "pw"), LoginRequest(TRUE, "b@x", "pw"),
     LoginRequest(FALSE, "a@x", "pw"), LoginRequest(FALSE, "a@x", "no"),
     LogoutRequest, UploadStart, ViewFilesRequest("a@x"),
     RemoveFilesRequest("a@x", <<"f1">>), ViewAdminDataRequest,
     [action |-> "bogus"], [action |-> "login", email |-> "a@x"], NotAnEnvelope}

\* the channel of endpoint e once both sides have run Authenticate
ChannelOf(e) == HandshakeDone(PrivKeyOf(e), PrivKeyOf(Peer(e)))

FirstAccount == UserData("a@x", "pw", Admin)

InitServer ==
    /\ FramingStart /\ CryptoStart /\ now = StartClock
    /\ call = NoCall
    /\ handler = NoHandler
    /\ clients = Conns
    /\ connections = [p \in Procs |-> IF p = Server THEN [i \in 1..NConns |-> i] ELSE <<p>>]
    /\ connection_map = [p \in Procs |->
           {[ip |-> getpeername(e).ip, port |-> getpeername(e).port, c |-> ConnOf(e)] :
                e \in {f \in Endpoints : Proc(f) = p}}]
    /\ input_buffer = [p \in Procs |-> <<>>]
    /\ output_buffer = [p \in Procs |-> <<>>]
    /\ sock = [e \in Endpoints |-> <<>>]
    /\ encryption = [e \in Endpoints |-> ChannelOf(e)]
    /\ worker = [e \in Endpoints |-> "running"]
    /\ current = [e \in Endpoints |-> IDLE_STATE]
    /\ pc = [e \in Endpoints |-> "start"]
    /\ locals = [e \in Endpoints |-> NoLocals]
    /\ state_queue = [e \in Endpoints |-> <<>>]
    /\ ui_left = [c \in Conns |-> 0]
    /\ users \in {<<>>, <<FirstAccount>>}
    /\ connected_users \in
           {{}} \cup {{[ip |-> getpeername(ServerEp(1)).ip,
                        port |-> getpeername(ServerEp(1)).port, email |-> FirstAccount.email]} :
                          u \in {v \in {users} : v # <<>>}}
    /\ logs = [i \in 1..Len(users) |->
                  Interaction(users[i].email, <<"Account registered">>, now \div 1000)]
    /\ folders = {users[i].email : i \in 1..Len(users)}
    /\ files = {FileData(users[i].email, "f1", Blob("B1")) : i \in 1..Len(users)}
    /\ client_data = [c \in Conns |-> ClientDataManager]
    /\ cnt = [e \in Endpoints |-> NewCount]
    /\ loop = [e \in Endpoints |-> NewLoop]
    /\ ev = NoEvent
    /\ running = [e \in Endpoints |-> TRUE]
    /\ stopping = [c \in Conns |-> "no"]

\* the peer of connection c has sent envelope m, and service_connection of
\* the server has read the frame into the inbound queue
RequestArrives(c, m) ==
    LET e == ServerEp(c)
    IN  /\ Arrived < MaxRequests
        /\ input_buffer' = [input_buffer EXCEPT ![Server] =
               Append(@, [msg |-> EncryptFrame(encryption[ClientEp(c)], m), via |-> c,
                          n |-> cnt[e].arrived + 1])]
        /\ cnt' = [cnt EXCEPT ![e].arrived = @ + 1]
        /\ UNCHANGED <<otherVars, connections, connection_map, output_buffer, sock, ev,
                       sessionVars, dataVars, ui_left, client_data>>

NextServer ==
    \/ \E c \in Conns : \E m \in ServerEnvelopes : RequestArrives(c, m)
    \/ \E e \in Endpoints : SrvIdle(e)
    \/ \E e \in Endpoints : SrvLogin(e)
    \/ \E e \in Endpoints : SrvRegisterAdd(e)
    \/ \E e \in Endpoints : SrvLogout(e)
    \/ \E e \in Endpoints : SrvViewFiles(e)
    \/ \E e \in Endpoints : SrvRemoveFiles(e)
    \/ \E e \in Endpoints : SrvViewAdminData(e)

SpecServer == InitServer /\ [][NextServer]_vars

(***************************************************************************)
(* Idle                                                                    *)
(***************************************************************************)
\* the orders in which the six schemas can be tried
Orders == {[i \in 1..Len(IdleOrder) |-> IdleOrder[p[i]]] : p \in Permutations(1..Len(IdleOrder))}

\* the discriminators that Idle of the server knows
IdleTags ==
    {"login", "logout", "upload_start", "view_files_request", "remove_files",
     "view_admin_data_request"}

\* the successor state for a well-formed envelope, by its discriminator
SuccessorOf(m) ==
    CASE m.action = "login" ->
             [state |-> "Login", register |-> m.register_user, email |-> m.email,
              password |-> m.password]
      [] m.action = "logout" -> [state |-> "Logout"]
      [] m.action = "upload_start" -> [state |-> "Upload"]
      [] m.action = "view_files_request" -> [state |-> "ViewFiles", user_email |-> m.user_email]
      [] m.action = "remove_files" ->
             [state |-> "RemoveFiles", user_email |-> m.user_email, files |-> m.files]
      [] m.action = "view_admin_data_request" -> [state |-> "ViewAdminData"]

\* an envelope with a known discriminator and the fields of its shape
WellFormed(m) ==
    /\ "action" \in DOMAIN m
    /\ m.action \in IdleTags
    /\ \E schema \in DOMAIN Schemas :
           Schemas[schema].action = m.action /\ Schemas[schema].fields \subseteq DOMAIN m

\* the same envelopes with a field that no schema has
WithExtra(M) == M \cup {m @@ [note |-> "extra"] : m \in M}

\* the session worker e takes a frame from the inbound queue in Idle
IdleTakes(e) ==
    /\ Running(e, "Idle", "start")
    /\ cnt'[e].handed = cnt[e].handed + 1

\* what get_message gives the worker e for the head of the inbound queue
IdleMessage(e) == get_message(encryption[e], HeadFrame(e))

\* whatever the order of the schemas, a well-formed envelope gets the one
\* successor of its discriminator
OrderIndependent ==
    \A m \in WithExtra(ServerEnvelopes) : \A o \in Orders :
        WellFormed(m) => dispatch_in(o, m) = <<SuccessorOf(m)>>

\* C14: the dispatch of Idle of the server is a function of the envelope's
\* discriminator alone: for a well-formed envelope, whatever the order in
\* which the schemas are tried, exactly one successor state is enqueued, the
\* one of the discriminator with the envelope's payload; a step of Idle that
\* takes such an envelope enqueues that state and no other; the run of Idle
\* of the client reads nothing, pushes nothing, enqueues nothing and changes
\* no data.
C14_IdleDispatch ==
    /\ []OrderIndependent
    /\ [][\A e \in ServerEps : IdleTakes(e) /\ WellFormed(IdleMessage(e)) =>
              /\ loop'[e].enqueued = loop[e].enqueued + 1
              /\ <<current'[e]>> \o state_queue'[e] =
                     state_queue[e] \o <<SuccessorOf(IdleMessage(e)) @@
                                           [k |-> loop[e].enqueued + 1, src |-> current[e].k]>>
              /\ output_buffer' = output_buffer]_vars
    /\ [][\A e \in ClientEps : Running(e, "Idle", "start") /\ WorkerStepped(e) =>
              /\ input_buffer' = input_buffer /\ output_buffer' = output_buffer
              /\ encryption' = encryption /\ client_data' = client_data
              /\ loop'[e].enqueued = loop[e].enqueued
              /\ cnt' = cnt]_vars
C14_Witness ==
    /\ \E e \in ServerEps : current[e].state = "RemoveFiles" /\ current[e].files = <<"f1">>
    /\ \E e \in ClientEps : loop[e].ran # <<>> /\ current[e].state = "Idle"

\* an error envelope: what message.create_error builds ("type": "error"), or
\* an envelope with the discriminator "error"
IsError(m) ==
    \/ "type" \in DOMAIN m /\ m.type = "error"
    \/ "action" \in DOMAIN m /\ m.action = "error"

\* the envelope inside a frame of the outbound queue
Body(frame) == IF Sealed(frame) THEN frame.body ELSE frame

\* C15: when a server worker in Idle takes an envelope that fails
\* discriminator or shape validation (unknown tag, known tag with missing
\* fields, a body that is no envelope), it pushes an error envelope on that
\* connection, enqueues no state, stays in Idle, and the connection remains.
C15_ProtocolErrorAnswered ==
    [][\A e \in ServerEps :
           /\ IdleTakes(e)
           /\ IdleMessage(e) # RaiseMark
           /\ ~WellFormed(IdleMessage(e))
           => /\ Len(output_buffer'[Server]) = Len(output_buffer[Server]) + 1
              /\ output_buffer'[Server][Len(output_buffer'[Server])].via = ConnOf(e)
              /\ IsError(Body(output_buffer'[Server][Len(output_buffer'[Server])].msg))
              /\ loop'[e].enqueued = loop[e].enqueued
              /\ current'[e].state = "Idle" /\ worker'[e] = "running"
              /\ connection_map' = connection_map]_vars

(***************************************************************************)
(* Login and Logout                                                        *)
(***************************************************************************)
\* C16: whatever the interleaving of the register requests of the
\* connections, the first account of the store has the Admin privilege and
\* every account registered after it has the User privilege, so there are
\* never two Admin accounts.
C16_FirstIsAdmin ==
    /\ \A i \in 1..Len(users) : users[i].privilege = (IF i = 1 THEN Admin ELSE User)
    /\ Cardinality({i \in 1..Len(users) : users[i].privilege = Admin}) <= 1

\* the run of state name on the server endpoint e pushes its response
Answers(e, name) ==
    /\ worker[e] = "running" /\ current[e].state = name
    /\ cnt'[e].pushed = cnt[e].pushed + 1
\* the envelope that was pushed last on the outbound queue of the server
LastPushed == Body(output_buffer'[Server][Len(output_buffer'[Server])].msg)

\* C17: a register request for an email that already has a user record is
\* answered with success=false and the message that the account exists, and
\* leaves the user store and the interaction log unchanged.
C17_DuplicateRegistration ==
    /\ [][\A e \in ServerEps :
             /\ Running(e, "Login", "start") /\ current[e].register /\ WorkerStepped(e)
             /\ is_user(Data, current[e].email)
             => /\ Answers(e, "Login")
                /\ LastPushed = LoginResponse(FALSE, "Account already exists", None)
                /\ output_buffer'[Server][Len(output_buffer'[Server])].via = ConnOf(e)
                /\ users' = users
                /\ logs' = logs]_vars
    /\ [][\A e \in ServerEps :
             /\ Answers(e, "Login") /\ current[e].register
             /\ is_user(Data, current[e].email)
             => users' = users]_vars
C17_Witness ==
    /\ \E i \in 1..Len(output_buffer[Server]) :
           Body(output_buffer[Server][i].msg) =
               LoginResponse(FALSE, "Account already exists", None)
    /\ Len(users) = 1 /\ Len(logs) = 1

\* the entries of the session association map for the peer address of e
EntriesOf(e) ==
    {t \in connected_users : t.ip = getpeername(e).ip /\ t.port = getpeername(e).port}
\* the account exists and the submitted password is the stored one
Credentials(email, password) ==
    \E i \in 1..Len(users) : users[i].email = email /\ users[i].password = password
PrivilegeOf(email) == users[CHOOSE i \in 1..Len(users) : users[i].email = email].privilege

\* C18: a login with register=false succeeds if and only if the account
\* exists, the submitted password is the stored one and the connection is
\* not yet associated with a user; on success the connection becomes
\* associated with that user and the response carries success=true and the
\* user's privilege level; on failure the response carries success=false and
\* the association map is unchanged.  So a connection is associated with at
\* most one user at any time.
C18_LoginIff ==
    /\ [][\A e \in ServerEps :
             Running(e, "Login", "start") /\ ~current[e].register /\ WorkerStepped(e) =>
                 LET st == current[e]
                     ok == Credentials(st.email, st.password) /\ EntriesOf(e) = {}
                 IN  /\ Answers(e, "Login")
                     /\ output_buffer'[Server][Len(output_buffer'[Server])].via = ConnOf(e)
                     /\ LastPushed.action = "login_response"
                     /\ LastPushed.success = ok
                     /\ ok => /\ LastPushed.level = Some(PrivilegeOf(st.email))
                              /\ connected_users' = connected_users \cup
                                     {[ip |-> getpeername(e).ip, port |-> getpeername(e).port,
                                       email |-> st.email]}
                     /\ ~ok => /\ LastPushed.level = None
                               /\ connected_users' = connected_users]_vars
    /\ [](\A e \in ServerEps : Cardinality(EntriesOf(e)) <= 1)
C18_Witness ==
    /\ \E i \in 1..Len(output_buffer[Server]) :
           Body(output_buffer[Server][i].msg) =
               LoginResponse(TRUE, "Successfully logged in", Some(Admin))
    /\ \E i \in 1..Len(output_buffer[Server]) :
           Body(output_buffer[Server][i].msg) =
               LoginResponse(FALSE, "Incorrect password", None)
    /\ connected_users # {}

\* the entry of t is the session of a connection the registry holds
Live(t) == is_connected(connection_map[Server], t.ip, t.port)

\* C19: a login for an account is rejected when another live connection
\* holds the session for that account, so no two distinct live connections
\* are associated with the same account.
C19_OneSessionPerAccount ==
    \A t1, t2 \in connected_users :
        Live(t1) /\ Live(t2) /\ t1.email = t2.email => t1 = t2

\* the states of the server whose run asks for the user of the connection
NeedUser == {"Logout", "ViewFiles", "RemoveFiles", "ViewAdminData"}

\* C20: Logout clears the association of the connection and answers
\* success=true when a user is associated, and answers success=false and
\* changes nothing when none is; afterwards the connection counts as not
\* logged in for every request (each is answered "Not logged in"), and a
\* login with the right credentials on it succeeds again.
C20_Logout ==
    /\ [][\A e \in ServerEps :
             Running(e, "Logout", "start") /\ WorkerStepped(e) =>
                 /\ Answers(e, "Logout")
                 /\ output_buffer'[Server][Len(output_buffer'[Server])].via = ConnOf(e)
                 /\ LastPushed.action = "response"
                 /\ LastPushed.success = (EntriesOf(e) # {})
                 /\ connected_users' = connected_users \ EntriesOf(e)
                 /\ users' = users /\ logs' = logs /\ files' = files]_vars
    /\ [][\A e \in ServerEps :
             /\ current[e].state \in NeedUser /\ Running(e, current[e].state, "start")
             /\ WorkerStepped(e) /\ EntriesOf(e) = {}
             => /\ LastPushed.success = FALSE /\ LastPushed.message = "Not logged in"
                /\ connected_users' = connected_users /\ files' = files]_vars
    /\ [][\A e \in ServerEps :
             /\ Running(e, "Login", "start") /\ ~current[e].register /\ WorkerStepped(e)
             /\ EntriesOf(e) = {} /\ Credentials(current[e].email, current[e].password)
             => LastPushed.success = TRUE /\ EntriesOf(e)' # {}]_vars
C20_Witness ==
    \E i, j \in 1..Len(output_buffer[Server]) :
        /\ i < j
        /\ output_buffer[Server][i].via = output_buffer[Server][j].via
        /\ Body(output_buffer[Server][i].msg) = BasicResponse(TRUE, "Successfully logged out")
        /\ Body(output_buffer[Server][j].msg) =
               LoginResponse(TRUE, "Successfully logged in", Some(Admin))

(***************************************************************************)
(* SpecFiles: the server with two accounts, the first elevated, and a file *)
(* in the folder of the first.  The peer of the first connection, logged   *)
(* in to either account or to none, sends any frame of FileFrames, one at  *)
(* a time.                                                                 *)
(***************************************************************************)
MaxFileRequests == 4    \* frames the peer sends
MaxPending == 1         \* frames on the inbound queue

SecondAccount == UserData("b@x", "pw", User)

FileFrames ==
    {UploadStart, UploadFile("f1"), UploadFile("f2"), UploadFile("../a@x/f2"), Blob("B2"),
     UploadEnd, ViewFilesRequest("a@x"), ViewFilesRequest("b@x"),
     RemoveFilesRequest("a@x", <<"f1", "f2">>), RemoveFilesRequest("b@x", <<"../a@x/f1">>),
     ViewAdminDataRequest}

InitFiles ==
    /\ FramingStart /\ CryptoStart /\ now = StartClock
    /\ call = NoCall
    /\ handler = NoHandler
    /\ clients = Conns
    /\ connections = [p \in Procs |-> IF p = Server THEN [i \in 1..NConns |-> i] ELSE <<p>>]
    /\ connection_map = [p \in Procs |->
           {[ip |-> getpeername(e).ip, port |-> getpeername(e).port, c |-> ConnOf(e)] :
                e \in {f \in Endpoints : Proc(f) = p}}]
    /\ input_buffer = [p \in Procs |-> <<>>]
    /\ output_buffer = [p \in Procs |-> <<>>]
    /\ sock = [e \in Endpoints |-> <<>>]
    /\ encryption = [e \in Endpoints |-> ChannelOf(e)]
    /\ worker = [e \in Endpoints |-> "running"]
    /\ current = [e \in Endpoints |-> IDLE_STATE]
    /\ pc = [e \in Endpoints |-> "start"]
    /\ locals = [e \in Endpoints |-> NoLocals]
    /\ state_queue = [e \in Endpoints |-> <<>>]
    /\ ui_left = [c \in Conns |-> 0]
    /\ users = <<FirstAccount, SecondAccount>>
    /\ connected_users \in
           {{}} \cup {{[ip |-> getpeername(ServerEp(1)).ip,
                        port |-> getpeername(ServerEp(1)).port, email |-> u]} : u \in Emails}
    /\ logs = <<Interaction("a@x", <<"Account registered">>, now \div 1000),
                Interaction("b@x", <<"Account registered">>, now \div 1000),
                Interaction("a@x", <<"Uploaded", "f1">>, now \div 1000)>>
    /\ folders \in {{"a@x"}, {"a@x", "b@x"}}
    /\ files = {FileData("a@x", "f1", Blob("B1"))}
    /\ client_data = [c \in Conns |-> ClientDataManager]
    /\ cnt = [e \in Endpoints |-> NewCount]
    /\ loop = [e \in Endpoints |-> NewLoop]
    /\ ev = NoEvent
    /\ running = [e \in Endpoints |-> TRUE]
    /\ stopping = [c \in Conns |-> "no"]

\* the peer of the first connection has sent frame m
FileFrameArrives(m) ==
    /\ Arrived < MaxFileRequests
    /\ Len(input_buffer[Server]) < MaxPending
    /\ input_buffer' = [input_buffer EXCEPT ![Server] =
           Append(@, [msg |-> EncryptFrame(encryption[ClientEp(1)], m), via |-> 1,
                      n |-> cnt[ServerEp(1)].arrived + 1])]
    /\ cnt' = [cnt EXCEPT ![ServerEp(1)].arrived = @ + 1]
    /\ UNCHANGED <<otherVars, connections, connection_map, output_buffer, sock, ev,
                   sessionVars, dataVars, ui_left, client_data>>

NextFiles ==
    \/ \E m \in FileFrames : FileFrameArrives(m)
    \/ \E e \in Endpoints : SrvIdle(e)
    \/ \E e \in Endpoints : SrvUpload(e)
    \/ \E e \in Endpoints : SrvUploadMessage(e)
    \/ \E e \in Endpoints : SrvUploadContent(e)
    \/ \E e \in Endpoints : SrvViewFiles(e)
    \/ \E e \in Endpoints : SrvRemoveFiles(e)
    \/ \E e \in Endpoints : SrvViewAdminData(e)

SpecFiles == InitFiles /\ [][NextFiles]_vars

\* the states that need a logged-in user, and a run of one of them that starts
NeedSession == {"Upload", "ViewFiles", "RemoveFiles", "ViewAdminData"}
Starts(e) ==
    /\ current[e].state \in NeedSession /\ Running(e, current[e].state, "start")
    /\ WorkerStepped(e)
\* the answer of the step carries neither a file list nor admin data
NoPayload(m) ==
    /\ "files" \in DOMAIN m => m.files = None
    /\ "data" \in DOMAIN m => m.data = None
    /\ "path" \in DOMAIN m => m.path = None
AnsweredTo(e) == output_buffer'[Server][Len(output_buffer'[Server])].via = ConnOf(e)

\* C22: Upload, ViewFiles, RemoveFiles and ViewAdminData on a connection with
\* no logged-in user are answered with success=false and "Not logged in";
\* the run writes and deletes no file, returns no file list and no admin
\* data, and appends no log entry.
C22_AuthRequired ==
    [][\A e \in ServerEps :
           Starts(e) /\ EntriesOf(e) = {} =>
               /\ Answers(e, current[e].state) /\ AnsweredTo(e)
               /\ LastPushed.success = FALSE /\ LastPushed.message = "Not logged in"
               /\ NoPayload(LastPushed)
               /\ pc'[e] = "start" /\ current'[e].state # current[e].state
               /\ UNCHANGED dataVars]_vars
C22_Witness ==
    /\ connected_users = {}
    /\ \E i \in 1..Len(output_buffer[Server]) :
           Body(output_buffer[Server][i].msg) = UploadResult(FALSE, "Not logged in", None)
    /\ \E i \in 1..Len(output_buffer[Server]) :
           Body(output_buffer[Server][i].msg) =
               ViewAdminDataResponse(FALSE, "Not logged in", None)

\* the account that the connection of e is logged in to
SessionUser(e) == get_user(Data, (CHOOSE t \in EntriesOf(e) : TRUE).email)[1]
Refused(e) ==
    /\ Answers(e, current[e].state) /\ AnsweredTo(e)
    /\ LastPushed.success = FALSE /\ LastPushed.message = "Insufficient permission"
    /\ NoPayload(LastPushed)
    /\ UNCHANGED dataVars
\* the run that starts asks for the files of another account or for admin data
AsksBeyond(e) ==
    \/ current[e].state \in {"ViewFiles", "RemoveFiles"}
           /\ current[e].user_email # SessionUser(e).email
    \/ current[e].state = "ViewAdminData"

\* C23: a logged-in requester without elevated privilege never receives the
\* file list of another user, never causes a file of another user to be
\* deleted, and never receives the user list or the log: each such request
\* is answered with success=false and "Insufficient permission" and changes
\* nothing.  A requester with elevated privilege, or one that targets its
\* own account, is not refused on permission grounds.
C23_AccessControl ==
    [][\A e \in ServerEps :
           Starts(e) /\ EntriesOf(e) # {} =>
               /\ SessionUser(e).privilege < Admin /\ AsksBeyond(e) => Refused(e)
               /\ SessionUser(e).privilege < Admin =>
                      \A f \in files : f.email # SessionUser(e).email => f \in files'
               /\ SessionUser(e).privilege >= Admin \/ ~AsksBeyond(e) =>
                      /\ Answers(e, current[e].state) => 
                             LastPushed.message # "Insufficient permission"]_vars

\* the worker of e takes the content frame of an upload that was announced
\* and acknowledged, and the frame opens under the channel
ContentReceived(e) ==
    /\ Running(e, "Upload", "content") /\ WorkerStepped(e)
    /\ input_buffer[Server] # <<>> /\ cnt'[e].handed = cnt[e].handed + 1
    /\ DecryptFrame(encryption[e], HeadFrame(e)) # RaiseMark
\* the names that a ViewFiles for email lists, by the store
Listed(email) == {f.name : f \in {g \in files : g.email = email}}
Range(q) == {q[i] : i \in 1..Len(q)}

\* C24: when the upload exchange of a logged-in user completes for a file
\* name (announced, acknowledged, content frame received), the store holds
\* under that user and name a file whose bytes are the content frame, and
\* the user is told so; a ViewFiles for a user answers success=true with
\* the list of the names stored for that user, which is empty for a user
\* without uploads.
C24_UploadThenView ==
    /\ [][\A e \in ServerEps :
             ContentReceived(e) =>
                 /\ FileData(locals[e].connected_user[1], locals[e].file_data[1],
                             DecryptFrame(encryption[e], HeadFrame(e))) \in files'
                 /\ locals[e].file_data[1] \in Listed(locals[e].connected_user[1])'
                 /\ Answers(e, "Upload") /\ AnsweredTo(e) /\ LastPushed.success]_vars
    /\ [][\A e \in ServerEps :
             /\ Running(e, "ViewFiles", "start") /\ WorkerStepped(e)
             /\ EntriesOf(e) # {} /\ SessionUser(e).email = current[e].user_email
             => /\ Answers(e, "ViewFiles") /\ AnsweredTo(e)
                /\ LastPushed.success /\ LastPushed.files # None
                /\ Range(LastPushed.files[1]) = Listed(current[e].user_email)
                /\ Len(LastPushed.files[1]) = Cardinality(Listed(current[e].user_email))]_vars

\* the worker of e takes the announcement of a file
Announced(e) ==
    /\ Running(e, "Upload", "message") /\ cnt'[e].handed = cnt[e].handed + 1
    /\ input_buffer[Server] # <<>>
    /\ get_message(encryption[e], HeadFrame(e)) \notin {NoMessage, RaiseMark}
    /\ model_validate("UploadFile", get_message(encryption[e], HeadFrame(e)))
AnnouncedName(e) == get_message(encryption[e], HeadFrame(e)).name

\* C25: an upload whose announced name already exists in the user's folder
\* is answered with success=false; the server does not go on to read a
\* content frame for it, leaves the stored file as it is and records no
\* upload log entry.  An upload log entry is recorded exactly by the steps
\* that received and wrote the content of a file.
C25_RejectedUpload ==
    /\ [][\A e \in ServerEps :
             Announced(e) /\ exists(Data, locals[e].connected_user[1], AnnouncedName(e)) =>
                 /\ Answers(e, "Upload") /\ AnsweredTo(e) /\ ~LastPushed.success
                 /\ pc'[e] # "content"
                 /\ files' = files
                 /\ logs' = logs]_vars
    /\ [][\A e \in ServerEps :
             Running(e, "Upload", pc[e]) /\ (WorkerStepped(e) \/ cnt'[e] # cnt[e]) =>
                 (logs' # logs <=> ContentReceived(e) /\ files' # files)]_vars

\* the run of RemoveFiles that starts is by a requester who may remove from
\* the folder, and the folder exists
Authorized(e) ==
    /\ Running(e, "RemoveFiles", "start") /\ WorkerStepped(e)
    /\ EntriesOf(e) # {}
    /\ SessionUser(e).email = current[e].user_email \/ SessionUser(e).privilege >= Admin
    /\ current[e].user_email \in folders
\* the files of the folder that the request names
Named(e) ==
    {f \in files : f.email = current[e].user_email /\ f.name \in Range(current[e].files)}

\* C26: a RemoveFiles by an authorized requester deletes exactly the named
\* files that exist and skips the names that do not, records one log entry
\* per deleted file, leaves every other file untouched, and answers with a
\* successful response that reports the number of files deleted.
C26_RemoveFiles ==
    [][\A e \in ServerEps :
           Authorized(e) =>
               /\ files' = files \ Named(e)
               /\ Len(logs') = Len(logs) + Cardinality(Named(e))
               /\ Answers(e, "RemoveFiles") /\ AnsweredTo(e)
               /\ LastPushed.message = removed_message[1 + Cardinality(Named(e))]
               /\ LastPushed.success]_vars

(***************************************************************************)
(* SpecRegistry: the server's listener, multiplexer and registry, with     *)
(* peers that connect from any free address of PeerAddresses, log in,      *)
(* close or break their connection, and a call of ServerInterface.stop     *)
(***************************************************************************)
MaxAccepted == 3    \* connections the listener accepts

PeerAddresses ==
    {[ip |-> "10.0.0.1", port |-> 40001], [ip |-> "10.0.0.1", port |-> 40002],
     [ip |-> "10.0.0.2", port |-> 40001]}

Last(kind, c) == [kind |-> kind, c |-> c]

\* ConnectionHandler.remove_connection on handler h
remove_connection_at(h, ip, port) ==
    LET data == get_connection(h.connection_map, ip, port)
    IN  IF data = None THEN h
        ELSE [h EXCEPT !.selector = @ \ {data[1]},
                       !.closed = @ \cup {data[1]},
                       !.connection_map = {t \in @ : ~(t.ip = ip /\ t.port = port)},
                       !.connections = SelectSeq(@, LAMBDA c : c # data[1]),
                       !.disconnected[data[1]] = @ + 1]

\* the disconnect callback that the server passes to start: it releases the
\* session of the connection
on_disconnect(d, addr) == logout(d, addr).d

\* remove_connection with its call of the disconnect callback, as a step
Remove(addr, kind, c, i) ==
    LET data == get_connection(handler.connection_map, addr.ip, addr.port)
    IN  /\ handler' = [remove_connection_at(handler, addr.ip, addr.port) EXCEPT
                           !.last = Last(kind, c), !.i = i, !.removals = @ \cup {c}]
        /\ connected_users' = IF data = None THEN connected_users
                              ELSE on_disconnect(Data, handler.peer[data[1]]).connected_users

regVars ==
    <<framingVars, now, cryptoVars, clients, netVars, sessionVars, ui_left, client_data,
      lifeVars, call, users, logs, folders, files>>

\* ServerInterface._listen: accept returns a socket whose peer has address a
ListenAccept(a) ==
    /\ handler.listen_thread = "accept"
    /\ Len(handler.peer) < MaxAccepted
    /\ \A c \in 1..Len(handler.peer) : handler.peer[c] = a => c \in handler.gone
    /\ handler' = [handler EXCEPT
           !.peer = Append(@, a), !.disconnected = Append(@, 0),
           !.listen_thread = IF handler.interface_running THEN "add" ELSE "done",
           !.last = Last("accept", Len(handler.peer) + 1)]
    /\ UNCHANGED <<regVars, connected_users>>

\* ServerInterface._listen: add_connection, the connect callback and the test
\* of the loop; register raises when the multiplexer has closed the selector
ListenAdd ==
    LET c == Len(handler.peer)
        a == handler.peer[c]
    IN  /\ handler.listen_thread = "add"
        /\ handler' =
               IF handler.connection_thread = "done"
               THEN [handler EXCEPT !.listen_thread = "done", !.last = Last("raise", c)]
               ELSE [handler EXCEPT
                        !.selector = @ \cup {c},
                        !.connections = Append(@, c),
                        !.connection_map = add_connection_map(@, a.ip, a.port, c),
                        !.listen_thread = IF handler.interface_running THEN "accept"
                                          ELSE "done",
                        !.last = Last("added", c)]
        /\ UNCHANGED <<regVars, connected_users>>

\* the session of connection c logs in to the first account
SessionLogin(c) ==
    /\ c \in 1..Len(handler.peer) /\ c \notin handler.gone
    /\ get_connection(handler.connection_map, handler.peer[c].ip, handler.peer[c].port)
           = Some(c)
    /\ get_connected_user(Data, handler.peer[c]) = None
    /\ connected_users' =
           login(Data, handler.peer[c], FirstAccount.email, FirstAccount.password)
               .d.connected_users
    /\ handler' = [handler EXCEPT !.last = Last("login", c)]
    /\ UNCHANGED regVars

\* the peer of connection c closes, or the connection breaks
PeerCloses(c) ==
    /\ c \in 1..Len(handler.peer) /\ c \notin handler.gone
    /\ handler' = [handler EXCEPT !.gone = @ \cup {c}, !.last = Last("gone", c)]
    /\ UNCHANGED <<regVars, connected_users>>

\* service_connection for the socket of c: read returns False (no bytes) or
\* raises socket.error, and remove_connection is called with c's address
ReadFails(c) ==
    /\ handler.connection_thread = "running"
    /\ c \in handler.selector /\ c \in handler.gone
    /\ Remove(handler.peer[c], "read_failed", c, handler.i)
    /\ UNCHANGED regVars

\* ServerInterface.stop, NetworkInterface.stop and ConnectionHandler.stop up
\* to the loop over self.connections
StopCalled ==
    /\ handler.stop = "no"
    /\ handler' = [handler EXCEPT !.interface_running = FALSE, !.running = FALSE,
                                  !.stop = "remove", !.i = 1, !.last = Last("stop", 0)]
    /\ UNCHANGED <<regVars, connected_users>>

\* ConnectionHandler.stop: a turn of the loop "for data in self.connections",
\* whose iterator goes by position in the list that remove_connection shortens
StopRemoves ==
    /\ handler.stop = "remove" /\ handler.i <= Len(handler.connections)
    /\ Remove(handler.peer[handler.connections[handler.i]], "removed",
              handler.connections[handler.i], handler.i + 1)
    /\ UNCHANGED regVars

\* ConnectionHandler.process leaves its loop when running is False, and the
\* selector is closed
ProcessExits ==
    /\ handler.connection_thread = "running" /\ ~handler.running
    /\ handler' = [handler EXCEPT !.connection_thread = "done", !.last = Last("exit", 0)]
    /\ UNCHANGED <<regVars, connected_users>>

\* ConnectionHandler.stop: the iterator is past the end of the list, and
\* the loop is over
StopLoopEnds ==
    /\ handler.stop = "remove" /\ handler.i > Len(handler.connections)
    /\ handler' = [handler EXCEPT !.stop = "thread_join", !.last = Last("looped", 0)]
    /\ UNCHANGED <<regVars, connected_users>>

\* ConnectionHandler.stop: connection_thread.join returns; then
\* ServerInterface.stop connects the stop socket and closes the listening
\* socket, which makes a blocked accept return
StopJoins ==
    /\ handler.stop = "thread_join"
    /\ handler.connection_thread = "done"
    /\ handler' = [handler EXCEPT
           !.stop = "join",
           !.listen_thread = IF @ = "accept" THEN "done" ELSE @,
           !.last = Last("joined", 0)]
    /\ UNCHANGED <<regVars, connected_users>>

\* ServerInterface.stop: listen_thread.join returns, and stop returns
StopReturns ==
    /\ handler.stop = "join" /\ handler.listen_thread = "done"
    /\ handler' = [handler EXCEPT !.stop = "returned", !.last = Last("returned", 0)]
    /\ UNCHANGED <<regVars, connected_users>>

InitRegistry ==
    /\ FramingStart /\ CryptoStart /\ now = StartClock
    /\ call = NoCall
    /\ SystemStart({}, [c \in Conns |-> 0])
    /\ handler = ServerInterface

NextRegistry ==
    \/ \E a \in PeerAddresses : ListenAccept(a)
    \/ ListenAdd
    \/ \E c \in 1..MaxAccepted : SessionLogin(c)
    \/ \E c \in 1..MaxAccepted : PeerCloses(c)
    \/ \E c \in 1..MaxAccepted : ReadFails(c)
    \/ StopCalled
    \/ StopRemoves
    \/ StopLoopEnds
    \/ ProcessExits
    \/ StopJoins
    \/ StopReturns

SpecRegistry == InitRegistry /\ [][NextRegistry]_vars

\* the ConnectionData of the last step, and its address
LastData == handler.last.c
LastPeer == handler.peer[handler.last.c]

\* C21: once a connection has been torn down (its peer closed, a read
\* failed, or the server was stopped) no logged-in user remains associated
\* with its address, so a later connection from the same address and port
\* starts not logged in.
C21_DisconnectReleases ==
    /\ handler.last.kind \in {"read_failed", "removed"} => ~HasEntry(Data, LastPeer)
    /\ /\ handler.last.kind = "added"
       /\ \A c \in 1..(LastData - 1) : handler.peer[c] = LastPeer => c \in handler.removals
       => get_connected_user(Data, LastPeer) = None

\* C27: when a read on a registered connection returns no bytes or raises a
\* socket error, the connection is deregistered, its socket is closed, and
\* the disconnect callback has been called for it exactly once; no later
\* event and no call of stop makes it a second call.
C27_TeardownOnReadFailure ==
    /\ handler.last.kind = "read_failed" =>
           /\ LastData \notin handler.selector
           /\ \A i \in 1..Len(handler.connections) : handler.connections[i] # LastData
           /\ ~is_connected(handler.connection_map, LastPeer.ip, LastPeer.port)
           /\ LastData \in handler.closed
           /\ handler.disconnected[LastData] = 1
    /\ \A c \in 1..Len(handler.peer) : handler.disconnected[c] <= 1

\* C29: stop first ends accepting, then tears down every live connection,
\* then stops the multiplexer: when stop returns the registry is empty,
\* whatever the number of live connections, and the multiplexer and the
\* listener have terminated; no connection is registered once the teardown
\* has begun.
C29_ShutdownOrder ==
    /\ handler.stop = "returned" =>
           /\ handler.connections = <<>> /\ handler.connection_map = {}
           /\ handler.selector = {}
           /\ handler.connection_thread = "done" /\ handler.listen_thread = "done"
    /\ handler.last.kind = "added" => handler.stop = "no"

(***************************************************************************)
(* SpecGarbage: SpecFraming with a peer that also sends, when no byte is   *)
(* in flight, 32 bytes that are no header                                  *)
(***************************************************************************)
\* no digit and no space: int raises ValueError; digits without a space:
\* header_parts[1] raises IndexError
GarbageHeaders ==
    {[i \in 1..packet_header_length |-> DOT], zfill(str_int(1), packet_header_length)}

FGarbage ==
    /\ muxAlive
    /\ "garbage" \notin kinds /\ wire = <<>>
    /\ \E header \in GarbageHeaders : wire' = header
    /\ kinds' = kinds \cup {"garbage"}
    /\ UNCHANGED <<conn, sent, muxAlive, now>>
    /\ UNCHANGED <<cryptoVars, systemVars>>

NextGarbage == FPush \/ FWrite \/ FRead \/ FGarbage

SpecGarbage == InitFraming /\ [][NextGarbage]_vars

\* C28: a header of 32 bytes that cannot be parsed costs the frame only: the
\* frame is dropped and reassembly awaits a header again, the multiplexer
\* keeps running and goes on servicing connections.
C28_HeaderErrorSurvivable ==
    /\ muxAlive
    /\ "garbage" \in kinds /\ wire = <<>> =>
           /\ conn.message_header = None /\ conn.message_bytes_remaining = 0
           /\ conn.message_buffer = <<>>
           /\ Len(conn.network_buffer) < packet_header_length

(***************************************************************************)
(* The driving loop                                                        *)
(***************************************************************************)
StateNames == RequestStates \cup {"Authenticate", "Idle"}
\* the worker of e takes a step; the run of its current state ends with it
WorkerActs(e) ==
    \/ WorkerStepped(e)
    \/ cnt'[e].handed # cnt[e].handed \/ cnt'[e].pushed # cnt[e].pushed
RunEnds(e) == worker[e] = "running" /\ WorkerActs(e) /\ pc'[e] = "start"
\* the states that the run which ends has enqueued
EnqueuedBy(e) == loop'[e].enqueued - loop[e].enqueued
\* the states that e has taken from its queue
Ran(e) == loop[e].ran

FWait ==
    /\ now <= MaxClock
    /\ \E d \in {StaleMs, StaleMs + 1} : now' = now + d
    /\ UNCHANGED <<conn, wire, sent, kinds, muxAlive>>
    /\ UNCHANGED <<cryptoVars, systemVars>>

NextStale == FPush \/ FWrite \/ FRead \/ FWait

SpecStale == InitFraming /\ [][NextStale]_vars

\* the read loop with the guard on the age of the frame: the time between the
\* timestamp of the header and the time t at which the body is complete
RECURSIVE read_loop_by_age(_, _)
read_loop_by_age(c, t) ==
    LET r == IF c.message_header # None
             THEN _read_body(c, t - c.message_header[1].timestamp)
             ELSE _read_header(c)
    IN  IF r.raised \/ r.ret THEN r ELSE read_loop_by_age(r.c, t)
\* the bytes that a step has taken from the socket
Received == Take(wire, Len(wire) - Len(wire'))
\* the frame whose body was awaited is complete with the bytes received
BodyCompleted ==
    /\ conn.message_header # None
    /\ Len(Received) >= conn.message_bytes_remaining
Age == now - conn.message_header[1].timestamp

\* C31: a frame whose header timestamp is more than 500 ms older than the
\* time at which its body is fully received is not put on the inbound queue
\* and the reassembly state is reset; a frame within the threshold is
\* delivered.
C31_StalenessGuard ==
    [][Len(wire') < Len(wire) /\ muxAlive' =>
          /\ conn' = read_loop_by_age([conn EXCEPT !.network_buffer = @ \o Received], now).c
          /\ BodyCompleted /\ Age > StaleMs =>
                 /\ IsPrefix(conn.input_buffer, conn'.input_buffer)
                 /\ Len(conn'.input_buffer) = Len(conn.input_buffer)
                 /\ conn'.message_header = None
          /\ BodyCompleted /\ Age <= StaleMs =>
                 /\ Len(conn'.input_buffer) > Len(conn.input_buffer)
                 /\ conn'.input_buffer[Len(conn.input_buffer) + 1]
                        = conn.message_buffer \o Take(Received, conn.message_bytes_remaining)]_vars

(***************************************************************************)
(* SpecWidth: the writer alone.  Frames of small bodies are written at the *)
(* model's clock; the rendering of the header is also applied to the text  *)
(* of a length of up to MaxLenDigits digits and the text of a clock as     *)
(* time.time() * 1000 prints it today and at the longest a float prints    *)
(***************************************************************************)
MaxLenDigits == 14
\* a number of n digits
Digits(n) == <<ZERO + 1>> \o Zeros(n - 1)
\* "1730793600123.4568" and "1.7976931348623157e+308" by their lengths
ClockTexts == {Digits(13) \o <<DOT>> \o Digits(4), Digits(1) \o <<DOT>> \o Digits(21)}

\* lines 215-218 of write on a message of the given length
FHeader ==
    /\ call.fn = "none"
    /\ \E n \in 1..MaxLenDigits, clock_text \in ClockTexts :
         call' = [fn |-> "write", length |-> Digits(n), clock |-> clock_text,
                  result |-> sendall_arg(header_text(Digits(n), clock_text), <<>>)]
    /\ UNCHANGED <<framingVars, now, cryptoVars, clients, handler, netVars, sessionVars,
                   dataVars, ui_left, client_data, lifeVars>>

NextWidth == FPush \/ FWrite \/ FHeader

SpecWidth == InitFraming /\ [][NextWidth]_vars

\* the text without its leading zeros
RECURSIVE lstrip_zeros(_)
lstrip_zeros(s) == IF Len(s) > 1 /\ s[1] = ZERO THEN lstrip_zeros(Tail(s)) ELSE s
\* the bytes a step has put on the socket
Written == SubSeq(wire', Len(wire) + 1, Len(wire'))
Rendered(c) == Len(c.length) + 1 + Len(c.clock)

\* C32: every frame written to the socket begins with a header of exactly 32
\* bytes that encodes the length of the body, followed by exactly that many
\* body bytes; when the rendered length and timestamp exceed 32 bytes nothing
\* of the frame is written.
C32_HeaderWidth ==
    [][/\ Len(conn'.output_buffer) < Len(conn.output_buffer) =>
           LET message == Head(conn.output_buffer)
           IN  /\ IsPrefix(wire, wire')
               /\ Written = <<>> \/ Len(Written) = packet_header_length + Len(message)
               /\ Written # <<>> =>
                      /\ int(split(Take(Written, packet_header_length), SP)[1]) = Len(message)
                      /\ Drop(Written, packet_header_length) = message
               /\ Written = <<>> => Len(str_int(Len(message))) + 1 + Len(str_float(now'))
                                        > packet_header_length
       /\ call'.fn = "write" /\ call.fn = "none" =>
           /\ wire' = wire
           /\ IF Rendered(call') > packet_header_length
              THEN call'.result = None
              ELSE /\ call'.result # None
                   /\ Len(call'.result[1]) = packet_header_length
                   /\ lstrip_zeros(split(call'.result[1], SP)[1]) = call'.length]_vars
\* a frame with a body has been written, and a header of more than 32 bytes
\* was refused
C32_Witness ==
    /\ \E i \in 1..Len(sent) : Len(sent[i]) > 0
    /\ call.fn = "write" /\ call.result = None /\ Rendered(call) > packet_header_length

\* the ConnectionData that were added and are not torn down
InRegistry == {handler.connections[i] : i \in 1..Len(handler.connections)}

\* C33: of the live connections with pairwise distinct (address, port), several
\* from one address on different ports included, each that was added and is
\* not torn down is found in the registry by its (address, port).
C33_RegistryKeyedByIdentity ==
    (\A c, d \in InRegistry : c # d => handler.peer[c] # handler.peer[d])
        => \A c \in InRegistry :
               get_connection(handler.connection_map, handler.peer[c].ip, handler.peer[c].port)
                   = Some(c)

\* the thread that takes a step of the given kind
ThreadOf(kind) ==
    CASE kind \in {"accept", "added", "raise"} -> "listen_thread"
      [] kind \in {"read_failed", "exit"} -> "connection_thread"
      [] kind \in {"stop", "removed", "looped", "joined", "returned"} -> "caller of stop"
      [] kind = "login" -> "session worker"
      [] OTHER -> "peer"

\* C34: every change of the connection registry, the adding of a connection
\* on accept and the removing of one on teardown or shutdown, is made by the
\* multiplexer worker, never by the listener thread, a session worker or the
\* thread that calls stop.
C34_RegistryConfinement ==
    [][handler'.connection_map # handler.connection_map
           \/ handler'.connections # handler.connections
           => ThreadOf(handler'.last.kind) = "connection_thread"]_vars

\* the runs of request states of the client that raised
FailedRequests(e) ==
    {loop[e].failed[i].state : i \in 1..Len(loop[e].failed)} \cap RequestStates

\* C35: for every request that a state of the client sends, the envelope
\* that the server's state for it sends in reply, on success and on every
\* failure branch, has the discriminator and the shape that the client's
\* state validates it against: no run of a request state of the client fails
\* on the validation of its reply.
C35_ShapeAgreement == \A e \in ClientEps : FailedRequests(e) = {}

(***************************************************************************)
(* SpecUpload: one client and the server after the handshake, both in      *)
(* Idle.  The user of the client has enqueued an Upload of one or two      *)
(* paths, and perhaps a ViewFiles behind it; the session is logged in to   *)
(* the first account or not.  The server holds f1 already, so that name is *)
(* rejected; a path whose content is None cannot be read.                  *)
(***************************************************************************)
MaxPaths == 2
Paths == {Path("f1", Some(Blob("B1"))), Path("f2", Some(Blob("B2"))), Path("f2", None)}
UploadPaths == UNION {[1..k -> Paths] : k \in 1..MaxPaths}
UploadQueues ==
    {<<client_Upload(paths)>> \o rest :
        paths \in UploadPaths, rest \in {<<>>, <<ViewFiles("a@x", FALSE)>>}}
UploadEps == {ServerEp(1), ClientEp(1)}

InitUpload ==
    /\ FramingStart /\ CryptoStart /\ now = StartClock
    /\ call = NoCall
    /\ handler = NoHandler
    /\ clients = {1}
    /\ connections = [p \in Procs |-> IF p \in {Server, 1} THEN <<1>> ELSE <<>>]
    /\ connection_map = [p \in Procs |->
           {[ip |-> getpeername(e).ip, port |-> getpeername(e).port, c |-> 1] :
                e \in {f \in UploadEps : Proc(f) = p}}]
    /\ input_buffer = [p \in Procs |-> <<>>]
    /\ output_buffer = [p \in Procs |-> <<>>]
    /\ sock = [e \in Endpoints |-> <<>>]
    /\ encryption = [e \in Endpoints |-> IF e \in UploadEps THEN ChannelOf(e)
                                         ELSE NetworkEncryption]
    /\ worker = [e \in Endpoints |-> IF e \in UploadEps THEN "running" ELSE "none"]
    /\ current = [e \in Endpoints |-> IF e \in UploadEps THEN IDLE_STATE ELSE Authenticate]
    /\ pc = [e \in Endpoints |-> "start"]
    /\ locals = [e \in Endpoints |-> NoLocals]
    /\ \E sts \in UploadQueues :
          /\ state_queue = [e \in Endpoints |-> IF e = ClientEp(1)
                                                THEN enqueue_state(<<>>, sts, 0, 0) ELSE <<>>]
          /\ loop = [e \in Endpoints |-> IF e = ClientEp(1)
                                         THEN [NewLoop EXCEPT !.enqueued = Len(sts)]
                                         ELSE NewLoop]
    /\ ui_left = [c \in Conns |-> 0]
    /\ users = <<FirstAccount>>
    /\ connected_users \in
           {{}, {[ip |-> getpeername(ServerEp(1)).ip, port |-> getpeername(ServerEp(1)).port,
                  email |-> FirstAccount.email]}}
    /\ logs = <<Interaction("a@x", <<"Account registered">>, now \div 1000)>>
    /\ folders = {"a@x"}
    /\ files = {FileData("a@x", "f1", Blob("B1"))}
    /\ client_data = [c \in Conns |-> ClientDataManager]
    /\ cnt = [e \in Endpoints |-> NewCount]
    /\ ev = NoEvent
    /\ running = [e \in Endpoints |-> TRUE]
    /\ stopping = [c \in Conns |-> "no"]

NextUpload ==
    \/ \E e \in UploadEps : service_connection(Proc(e), ConnOf(e), FALSE, 0)
    \/ \E e \in UploadEps : \E k \in 1..Len(sock[e]) :
           service_connection(Proc(e), ConnOf(e), TRUE, k)
    \/ \E e \in UploadEps : SrvIdle(e)
    \/ \E e \in UploadEps : SrvUpload(e)
    \/ \E e \in UploadEps : SrvUploadMessage(e)
    \/ \E e \in UploadEps : SrvUploadContent(e)
    \/ \E e \in UploadEps : SrvViewFiles(e)
    \/ \E e \in UploadEps : CliUpload(e)
    \/ \E e \in UploadEps : CliUploadFileReply(e)
    \/ \E e \in UploadEps : CliUploadContentReply(e)
    \/ \E e \in UploadEps : CliRequest(e)
    \/ \E e \in UploadEps : CliViewFilesReply(e)
    \/ \E e \in UploadEps : CliIdle(e)

\* the threads of both processes keep running
SpecUpload == InitUpload /\ [][NextUpload]_vars /\ WF_vars(NextUpload)

\* C36: for any list of one or more files, an Upload of the client
\* eventually finishes and the client goes on from it, the connection being
\* up, whether the session is logged in or not and whether or not names are
\* rejected: the client never waits forever for a reply.
C36_UploadCompletes ==
    \A e \in ClientEps :
        (worker[e] = "running" /\ current[e].state = "Upload")
            ~> (current[e].state # "Upload")

\* every frame that was sent has been delivered and taken
Delivered ==
    /\ \A e \in UploadEps : sock[e] = <<>>
    /\ \A p \in Procs : input_buffer[p] = <<>> /\ output_buffer[p] = <<>>
\* the states the user of client c has enqueued, and the content that the
\* client sends for the file of a name
Uploads(c) ==
    {st \in {loop[ClientEp(c)].ran[i] : i \in 1..Len(loop[ClientEp(c)].ran)}
              \cup {current[ClientEp(c)]} \cup
            {state_queue[ClientEp(c)][i] : i \in 1..Len(state_queue[ClientEp(c)])} :
        st.state = "Upload"}
ContentOf(c, name) ==
    UNION {{st.paths[i].content[1] :
               i \in {j \in 1..Len(st.paths) :
                          st.paths[j].name = name /\ st.paths[j].content # None}} :
           st \in Uploads(c)}

\* C37: when the client has finished or abandoned its states and is Idle with
\* every sent frame delivered, the server's machine of the connection is Idle
\* too, not inside the loop of Upload; and the bytes written to the store for
\* an announced file are a body that the client sent as the content of that
\* file, never a later envelope.
C37_LockStep ==
    /\ /\ current[ClientEp(1)] = IDLE_STATE /\ state_queue[ClientEp(1)] = <<>>
       /\ Delivered
       => current[ServerEp(1)] = IDLE_STATE
    /\ \A f \in files :
           \/ f = FileData("a@x", "f1", Blob("B1"))
           \/ ~is_json(f.body) /\ f.body \in ContentOf(1, f.name)


\* ---------------------------------------------------------------------
\* One selector event served whole: the readable part, the teardown it can
\* lead to, and the writable part of the same event
\* ---------------------------------------------------------------------

MaxQueued == 1    \* frames waiting in the output queue

\* the masks the selector reports for a socket registered for both events
Masks == {{"EVENT_READ", "EVENT_WRITE"}, {"EVENT_READ"}, {"EVENT_WRITE"}}

\* what sendall does on socket c of handler h: a closed socket raises
\* OSError; a socket whose peer is gone either takes the bytes or raises
sendall_results(h, c) ==
    IF c \in h.closed THEN {"OSError"}
    ELSE IF c \in h.gone THEN {"sent", "OSError"}
    ELSE {"sent"}

teardownVars ==
    <<framingVars, now, cryptoVars, clients, connections, connection_map, input_buffer,
      sock, cnt, ev, sessionVars, ui_left, client_data, lifeVars, users, logs, folders,
      files>>

\* push_message_raw by the worker of connection c: the frame is put on the
\* output queue
ReplyQueued(c) ==
    /\ c \in 1..Len(handler.peer)
    /\ get_connection(handler.connection_map, handler.peer[c].ip, handler.peer[c].port)
           # None
    /\ Len(output_buffer[Server]) < MaxQueued
    /\ output_buffer' = [output_buffer EXCEPT ![Server] = Append(@, <<c>>)]
    /\ handler' = [handler EXCEPT !.last = Last("queued", c)]
    /\ call' = NoCall
    /\ UNCHANGED <<teardownVars, connected_users>>

\* service_connection for the socket of c and the reported mask: with
\* EVENT_READ the peer is gone, read returns False or raises socket.error
\* and remove_connection is called; with EVENT_WRITE write takes a frame
\* off the output queue and calls sendall on the socket, whose OSError
\* nothing catches, so that it ends process and the thread
ServiceConnection(c, mask) ==
    LET addr == handler.peer[c]
        teardown == "EVENT_READ" \in mask
        data == get_connection(handler.connection_map, addr.ip, addr.port)
        h == IF teardown THEN remove_connection_at(handler, addr.ip, addr.port)
             ELSE handler
        writes == "EVENT_WRITE" \in mask /\ output_buffer[Server] # <<>>
    IN  /\ handler.connection_thread = "running"
        /\ c \in handler.selector
        /\ teardown => c \in handler.gone
        /\ \E r \in sendall_results(h, c) :
               LET raised == writes /\ r = "OSError"
               IN  /\ handler' =
                           [h EXCEPT
                              !.removals = IF teardown THEN @ \cup {c} ELSE @,
                              !.connection_thread = IF raised THEN "done" ELSE @,
                              !.last = Last(IF raised THEN "write_raised"
                                            ELSE IF teardown THEN "read_failed"
                                            ELSE "written", c)]
                   /\ call' = [fn |-> "service_connection", sock |-> c,
                               teardown |-> teardown, closed |-> c \in h.closed,
                               write |-> IF writes THEN r ELSE "none"]
        /\ connected_users' =
               IF teardown /\ data # None
               THEN on_disconnect(Data, handler.peer[data[1]]).connected_users
               ELSE connected_users
        /\ output_buffer' = IF writes THEN [output_buffer EXCEPT ![Server] = Tail(@)]
                            ELSE output_buffer
        /\ UNCHANGED teardownVars

NextTeardown ==
    \/ \E a \in PeerAddresses : ListenAccept(a)
    \/ ListenAdd
    \/ \E c \in 1..MaxAccepted : PeerCloses(c)
    \/ \E c \in 1..MaxAccepted : ReplyQueued(c)
    \/ \E c \in 1..MaxAccepted, mask \in Masks : ServiceConnection(c, mask)
    \/ StopCalled
    \/ StopRemoves
    \/ StopLoopEnds
    \/ ProcessExits
    \/ StopJoins
    \/ StopReturns

SpecTeardown == InitRegistry /\ [][NextTeardown]_vars

\* C38: the multiplexer performs no write on a socket it has deregistered
\* and closed: when the readable part of an event tore the connection down,
\* the writable part of the same event writes nothing on it, and a pending
\* outbound frame does not end the multiplexer thread.
C38_NoIOAfterTeardown ==
    call.fn = "service_connection" =>
        /\ call.closed => call.write = "none"
        /\ call.teardown => call.write # "OSError"


\* ---------------------------------------------------------------------
\* The state of reassembly between two reads
\* ---------------------------------------------------------------------

\* the connection awaits a header: nothing of a message is held
AwaitingHeader(c) ==
    /\ c.message_header = None
    /\ c.message_buffer = <<>>
    /\ c.message_bytes_remaining = 0
    /\ Len(c.network_buffer) < packet_header_length

\* the connection awaits the rest of a body
AwaitingBody(c) ==
    /\ c.message_header # None
    /\ c.network_buffer = <<>>
    /\ c.message_bytes_remaining > 0
    /\ Len(c.message_buffer) + c.message_bytes_remaining
           = c.message_header[1].message_length

\* C39: after every read that completed (it did not raise), the connection
\* either awaits a header, with an empty message buffer, no bytes remaining
\* and fewer than 32 bytes in the network buffer, or awaits a body, with an
\* empty network buffer, a positive number of bytes remaining and message
\* buffer plus bytes remaining as long as the header declared.
C39_ReassemblyState == muxAlive => AwaitingHeader(conn) \/ AwaitingBody(conn)

\* a read has left part of a body in the message buffer, another has
\* delivered a message and left part of the next header behind
C39_Witness ==
    /\ muxAlive /\ AwaitingBody(conn) /\ conn.message_buffer # <<>>
    /\ "header_split" \in kinds /\ conn.input_buffer # <<>>

====
